---- MODULE Spec2Model ----
(***************************************************************************)
(* Expense splitting and settlement engine of trip-expenses-splitter:      *)
(* CurrencyUtils (src/lib/utils/currency.ts) and BalanceCalculator         *)
(* (src/unnamed/part_007).                                                 *)
(*                                                                         *)
(* Money is held as a whole number of cents: the integer c stands for the  *)
(* JavaScript number c/100, the double nearest to that decimal.  Every     *)
(* value the engine stores is an output of CurrencyUtils.round, which is   *)
(* such a double.  Where the code computes on doubles that are not whole   *)
(* cents (a product with a ratio, an unrounded running sum, a comparison   *)
(* with the literal 0.01) the model computes on IEEE-754 binary64 values,  *)
(* built below from natural numbers of arbitrary size.                     *)
(***************************************************************************)
EXTENDS Integers, Sequences, FiniteSets, TLC

(***************************************************************************)
(* Natural numbers of arbitrary size: little-endian sequences of limbs in  *)
(* base 2^13, without leading zero limbs; <<>> is zero.  They carry the    *)
(* 53-bit significands of the doubles and their exact products.            *)
(***************************************************************************)
LimbBits == 13

RECURSIVE Pow2(_)
Pow2(n) == IF n = 0 THEN 1 ELSE 2 * Pow2(n - 1)

LimbBase == Pow2(LimbBits)

RECURSIVE BigTrim(_)
BigTrim(a) ==
  IF a = <<>> THEN <<>>
  ELSE IF a[Len(a)] = 0 THEN BigTrim(SubSeq(a, 1, Len(a) - 1))
  ELSE a

RECURSIVE BigFromNat(_)
BigFromNat(n) ==
  IF n = 0 THEN <<>> ELSE <<n % LimbBase>> \o BigFromNat(n \div LimbBase)

RECURSIVE BigToNat(_)
BigToNat(a) ==
  IF a = <<>> THEN 0 ELSE Head(a) + LimbBase * BigToNat(Tail(a))

RECURSIVE BigAddC(_, _, _)
BigAddC(a, b, carry) ==
  IF a = <<>> /\ b = <<>> THEN (IF carry = 0 THEN <<>> ELSE <<carry>>)
  ELSE LET x == IF a = <<>> THEN 0 ELSE Head(a)
           y == IF b = <<>> THEN 0 ELSE Head(b)
           t == x + y + carry
       IN  <<t % LimbBase>> \o
           BigAddC(IF a = <<>> THEN <<>> ELSE Tail(a),
                   IF b = <<>> THEN <<>> ELSE Tail(b), t \div LimbBase)

BigAdd(a, b) == BigAddC(a, b, 0)

\* a - b for a >= b
RECURSIVE BigSubB(_, _, _)
BigSubB(a, b, borrow) ==
  IF a = <<>> THEN <<>>
  ELSE LET y == IF b = <<>> THEN 0 ELSE Head(b)
           t == Head(a) - y - borrow
       IN  <<t % LimbBase>> \o
           BigSubB(Tail(a), IF b = <<>> THEN <<>> ELSE Tail(b),
                   IF t < 0 THEN 1 ELSE 0)

BigSub(a, b) == BigTrim(BigSubB(a, b, 0))

\* -1, 0, 1 as a < b, a = b, a > b (both without leading zeros)
RECURSIVE BigCmpFrom(_, _, _)
BigCmpFrom(a, b, i) ==
  IF i = 0 THEN 0
  ELSE IF a[i] < b[i] THEN -1
  ELSE IF a[i] > b[i] THEN 1
  ELSE BigCmpFrom(a, b, i - 1)

BigCmp(a, b) ==
  IF Len(a) < Len(b) THEN -1
  ELSE IF Len(a) > Len(b) THEN 1
  ELSE BigCmpFrom(a, b, Len(a))

\* a * k + carry for a small k (k < 2^17)
RECURSIVE BigMulSmallC(_, _, _)
BigMulSmallC(a, k, carry) ==
  IF a = <<>> THEN BigFromNat(carry)
  ELSE LET t == Head(a) * k + carry
       IN  <<t % LimbBase>> \o BigMulSmallC(Tail(a), k, t \div LimbBase)

BigMulSmall(a, k) == BigTrim(BigMulSmallC(a, k, 0))

RECURSIVE BigMul(_, _)
BigMul(a, b) ==
  IF b = <<>> \/ a = <<>> THEN <<>>
  ELSE BigAdd(BigMulSmall(a, Head(b)),
              LET rest == BigMul(a, Tail(b))
              IN  IF rest = <<>> THEN <<>> ELSE <<0>> \o rest)

\* quotient and remainder of a by a small d (0 < d < 2^17)
RECURSIVE BigDivSmallFrom(_, _, _, _)
BigDivSmallFrom(a, d, i, rem) ==
  IF i = 0 THEN [q |-> <<>>, r |-> rem]
  ELSE LET t    == rem * LimbBase + a[i]
           rest == BigDivSmallFrom(a, d, i - 1, t % d)
       IN  [q |-> rest.q \o <<t \div d>>, r |-> rest.r]

BigDivSmall(a, d) ==
  LET Trimmed(res) == [q |-> BigTrim(res.q), r |-> res.r]
  IN  Trimmed(BigDivSmallFrom(a, d, Len(a), 0))

RECURSIVE Zeros(_)
Zeros(n) == IF n = 0 THEN <<>> ELSE <<0>> \o Zeros(n - 1)

\* a * 2^n
BigShl(a, n) ==
  IF a = <<>> THEN <<>>
  ELSE Zeros(n \div LimbBits) \o BigMulSmall(a, Pow2(n % LimbBits))

RECURSIVE AllZero(_)
AllZero(a) == a = <<>> \/ (Head(a) = 0 /\ AllZero(Tail(a)))

\* floor(a / 2^n), and whether a nonzero part was shifted out
BigShr(a, n) ==
  LET Parts(low, res) == [q |-> res.q, lost |-> res.r # 0 \/ ~AllZero(low)]
      Split(k) ==
        IF k >= Len(a) THEN Parts(a, BigDivSmall(<<>>, Pow2(n % LimbBits)))
        ELSE Parts(SubSeq(a, 1, k),
                   BigDivSmall(SubSeq(a, k + 1, Len(a)), Pow2(n % LimbBits)))
  IN  Split(n \div LimbBits)

RECURSIVE BitLen(_)
BitLen(n) == IF n = 0 THEN 0 ELSE 1 + BitLen(n \div 2)

BigBitLen(a) ==
  IF a = <<>> THEN 0 ELSE LimbBits * (Len(a) - 1) + BitLen(a[Len(a)])

BigIsOdd(a) == a # <<>> /\ Head(a) % 2 = 1

(***************************************************************************)
(* IEEE-754 binary64 numbers (JavaScript's Number): sg * m * 2^e with m a  *)
(* significand of exactly 53 bits, or m = <<>> for zero.  Each operation   *)
(* returns the exact result rounded to nearest, ties to even, as the       *)
(* hardware does.  The values met here are far from overflow and from the  *)
(* subnormal range.                                                        *)
(***************************************************************************)
SigBits == 53

DblZero == [sg |-> 1, m |-> <<>>, e |-> 0]

\* round sg * (M + f) * 2^e to a double, where 0 <= f < 1 and sticky says f > 0
DblRound(sg, M, e, sticky) ==
  LET Fit(q2, n) ==
        IF BigBitLen(q2) > SigBits
          THEN [sg |-> sg, m |-> BigShr(q2, 1).q, e |-> e + n + 1]
          ELSE [sg |-> sg, m |-> q2, e |-> e + n]
      Nearest(q, sh1, n) ==
        Fit(IF BigIsOdd(sh1.q) /\ (sh1.lost \/ sticky \/ BigIsOdd(q))
              THEN BigAdd(q, <<1>>) ELSE q, n)
      Cut(n) == Nearest(BigShr(M, n).q, BigShr(M, n - 1), n)
      Sized(L) ==
        IF L <= SigBits
          THEN [sg |-> sg, m |-> BigShl(M, SigBits - L), e |-> e - (SigBits - L)]
          ELSE Cut(L - SigBits)
  IN  IF M = <<>> THEN DblZero ELSE Sized(BigBitLen(M))

GuardBits == 72

\* the double nearest to n / d, for integers n and 0 < d < 2^17:
\* the value of a decimal literal, and of the quotient of two integers
DblFromRatio(n, d) ==
  LET Rounded(res) ==
        DblRound(IF n < 0 THEN -1 ELSE 1, res.q, 0 - GuardBits, res.r # 0)
  IN  IF n = 0 THEN DblZero
      ELSE Rounded(BigDivSmall(BigShl(BigFromNat(IF n < 0 THEN 0 - n ELSE n),
                                      GuardBits), d))

\* x / d for an integer 0 < d < 2^17
DblDivSmall(x, d) ==
  LET Rounded(res) == DblRound(x.sg, res.q, x.e - GuardBits, res.r # 0)
  IN  IF x.m = <<>> THEN DblZero
      ELSE Rounded(BigDivSmall(BigShl(x.m, GuardBits), d))

\* x * y
DblMul(x, y) ==
  IF x.m = <<>> \/ y.m = <<>> THEN DblZero
  ELSE DblRound(x.sg * y.sg, BigMul(x.m, y.m), x.e + y.e, FALSE)

\* x * k for an integer 0 < k < 2^17
DblMulSmall(x, k) ==
  IF x.m = <<>> THEN DblZero
  ELSE DblRound(x.sg, BigMulSmall(x.m, k), x.e, FALSE)

DblNeg(x) == [x EXCEPT !.sg = 0 - x.sg]

DblAbs(x) == [x EXCEPT !.sg = 1]

\* x + y
DblAdd(x, y) ==
  LET Signed(Mx, My, e, c) ==
        IF x.sg = y.sg THEN DblRound(x.sg, BigAdd(Mx, My), e, FALSE)
        ELSE IF c = 0 THEN DblZero
        ELSE DblRound(IF c > 0 THEN x.sg ELSE y.sg,
                      IF c > 0 THEN BigSub(Mx, My) ELSE BigSub(My, Mx), e, FALSE)
      Aligned(Mx, My, e) == Signed(Mx, My, e, BigCmp(Mx, My))
      At(e) == Aligned(BigShl(x.m, x.e - e), BigShl(y.m, y.e - e), e)
  IN  IF x.m = <<>> THEN y
      ELSE IF y.m = <<>> THEN x
      ELSE At(IF x.e < y.e THEN x.e ELSE y.e)

\* x - y
DblSub(x, y) == DblAdd(x, DblNeg(y))

\* x < y
DblLess(x, y) ==
  LET Negative(d) == d.m # <<>> /\ d.sg = -1 IN Negative(DblSub(x, y))

\* Math.floor(x), for |x| < 2^30
MathFloor(x) ==
  IF x.m = <<>> THEN 0
  ELSE IF x.e >= 0 THEN x.sg * BigToNat(BigShl(x.m, x.e))
  ELSE LET sh == BigShr(x.m, 0 - x.e)
           q  == BigToNat(sh.q)
       IN  IF x.sg = 1 THEN q
           ELSE IF sh.lost THEN 0 - (q + 1) ELSE 0 - q

\* Math.round(x), for |x| < 2^30: the nearest integer, a half going up
MathRound(x) ==
  IF x.m = <<>> THEN 0
  ELSE IF x.e >= 0 THEN x.sg * BigToNat(BigShl(x.m, x.e))
  ELSE LET n    == 0 - x.e
           q    == BigToNat(BigShr(x.m, n).q)
           sh1  == BigShr(x.m, n - 1)
           rbit == BigIsOdd(sh1.q)
       IN  IF x.sg = 1 THEN (IF rbit THEN q + 1 ELSE q)
           ELSE (IF rbit /\ sh1.lost THEN 0 - (q + 1) ELSE 0 - q)

\* the JavaScript number written with two decimals whose hundredths count is c
Num(c) == DblFromRatio(c, 100)

\* the literal 0.01 of the tolerance tests
Tolerance == Num(1)

(***************************************************************************)
(* CurrencyUtils.                                                          *)
(*                                                                         *)
(* A function of the code that returns money returns the cents count of    *)
(* the double it returns.  Two facts about doubles are used to keep the    *)
(* evaluation short; both follow from the relative error 2^-53 of each     *)
(* operation and hold for every amount below 2^30 cents:                   *)
(*  - the sum or difference of whole-cent doubles, once rounded by         *)
(*    CurrencyUtils.round, is the exact sum or difference of the cents;    *)
(*  - a double expression whose exact value is not on the boundary that    *)
(*    the code tests (a half cent for Math.round, an integer for           *)
(*    Math.floor, one hundredth for the tolerance tests) falls on the same *)
(*    side of it as the exact value.                                       *)
(* On the boundary the decision is made on the doubles themselves.         *)
(***************************************************************************)
Abs(n) == IF n < 0 THEN 0 - n ELSE n

Ok(v) == [ok |-> TRUE, val |-> v]

Err(msg) == [ok |-> FALSE, err |-> msg]

RECURSIVE SumSeq(_)
SumSeq(s) == IF s = <<>> THEN 0 ELSE Head(s) + SumSeq(Tail(s))

\* values.reduce((acc, val) => acc + val, 0) on the doubles x/100
RECURSIVE ReduceSumFrom(_, _)
ReduceSumFrom(acc, s) ==
  IF s = <<>> THEN acc ELSE ReduceSumFrom(DblAdd(acc, Num(Head(s))), Tail(s))

ReduceSum(s) == ReduceSumFrom(DblZero, s)

\* CurrencyUtils.round: Math.round(amount * 100) / 100, as a number of cents
round(x) == MathRound(DblMulSmall(x, 100))

\* CurrencyUtils.add on whole-cent amounts
add(a, b) == a + b

\* CurrencyUtils.subtract on whole-cent amounts
subtract(a, b) == a - b

\* Math.round of the exact quotient n / d (d > 0): a half goes up
RoundHalfUp(n, d) == (2 * n + d) \div (2 * d)

\* the exact quotient n / d (d > 0) lies on a half
IsHalf(n, d) == (2 * n) % (2 * d) = d

\* CurrencyUtils.multiply(total, pct / 100), total in cents and
\* pct in hundredths of a percent
multiplyPercent(total, pct) ==
  IF IsHalf(total * pct, 10000)
    THEN round(DblMul(Num(total), DblDivSmall(Num(pct), 100)))
    ELSE RoundHalfUp(total * pct, 10000)

\* CurrencyUtils.multiply(total, share / totalShares), total in cents and
\* share, totalShares whole numbers, totalShares not zero
multiplyShare(total, share, totalShares) ==
  LET n == IF totalShares < 0 THEN 0 - share ELSE share
      d == Abs(totalShares)
  IN  IF IsHalf(total * n, d)
        THEN round(DblMul(Num(total), DblFromRatio(n, d)))
        ELSE RoundHalfUp(total * n, d)

\* CurrencyUtils.divide(a, b): a in cents, b a whole number, not negative
divide(a, b) ==
  IF b = 0 THEN Err("Division by zero")
  ELSE IF IsHalf(a, b) THEN Ok(round(DblDivSmall(Num(a), b)))
  ELSE Ok(RoundHalfUp(a, b))

\* CurrencyUtils.isEqual(sum of values, b): Math.abs(a - b) < 0.01, where a
\* is the unrounded running sum of the doubles values[i]/100
isEqualSum(values, b) ==
  LET d == SumSeq(values) - b
  IN  IF Abs(d) = 1
        THEN DblLess(DblAbs(DblSub(ReduceSum(values), Num(b))), Tolerance)
        ELSE d = 0

\* CurrencyUtils.isZero on a whole-cent amount: Math.abs(amount) < 0.01
isZero(amount) == Abs(amount) < 1

\* every amount above zero counts
AnyAmount(amount) == amount > 0

\* amount > 0.01 on a whole-cent amount
AboveTolerance(amount) == amount > 1

\* Math.round in the place of Math.floor
RoundCents(total, shares) == RoundHalfUp(total, shares)

\* Math.floor(total * 100 / shares) for total in cents and shares > 0
FloorCents(total, shares) ==
  IF total % shares = 0
    THEN MathFloor(DblDivSmall(DblMulSmall(Num(total), 100), shares))
    ELSE total \div shares

\* the remainder cents given to the last parts
distributeToLast(total, shares) ==
  IF shares <= 0 THEN Err("Shares must be positive")
  ELSE IF total < 0 THEN Err("Total must be non-negative")
  ELSE LET baseAmount     == FloorCents(total, shares)
           remainderCents == total - baseAmount * shares
       IN  Ok([i \in 1..shares |->
                 IF shares - i < remainderCents THEN baseAmount + 1 ELSE baseAmount])

\* CurrencyUtils.distribute
distribute(total, shares) ==
  IF shares <= 0 THEN Err("Shares must be positive")
  ELSE IF total < 0 THEN Err("Total must be non-negative")
  ELSE LET baseAmount     == FloorCents(total, shares)
           remainderCents == total - baseAmount * shares
       IN  Ok([i \in 1..shares |->
                 IF i - 1 < remainderCents THEN baseAmount + 1 ELSE baseAmount])

\* amounts.indexOf(Math.max(...amounts)), counted from 1
RECURSIVE MaxOf(_)
MaxOf(s) ==
  IF Len(s) = 1 THEN s[1]
  ELSE LET m == MaxOf(Tail(s)) IN IF Head(s) >= m THEN Head(s) ELSE m

IndexOfMax(s) == CHOOSE i \in 1..Len(s) :
                   /\ s[i] = MaxOf(s)
                   /\ \A j \in 1..(i - 1) : s[j] # MaxOf(s)

\* "Adjust for rounding errors" of distributeByPercentages and distributeByShares
AdjustRounding(total, amounts) ==
  LET difference == total - SumSeq(amounts)
  IN  IF AboveTolerance(Abs(difference))
        THEN [amounts EXCEPT ![IndexOfMax(amounts)] = add(@, difference)]
        ELSE amounts

\* Math.abs(sum - 100) > 0.01 for percentages in hundredths of a percent
PercentSumOff(percentages) ==
  LET d == SumSeq(percentages) - 10000
  IN  IF Abs(d) = 1
        THEN DblLess(Tolerance, DblAbs(DblSub(ReduceSum(percentages), Num(10000))))
        ELSE d # 0

\* CurrencyUtils.distributeByPercentages
distributeByPercentages(total, percentages) ==
  IF PercentSumOff(percentages) THEN Err("Percentages must sum to 100")
  ELSE Ok(AdjustRounding(total,
            [i \in 1..Len(percentages) |-> multiplyPercent(total, percentages[i])]))

\* CurrencyUtils.distributeByShares
distributeByShares(total, shares) ==
  LET totalShares == SumSeq(shares)
  IN  IF totalShares = 0 THEN Err("Total shares must be positive")
      ELSE Ok(AdjustRounding(total,
                [i \in 1..Len(shares) |-> multiplyShare(total, shares[i], totalShares)]))

(***************************************************************************)
(* BalanceCalculator.                                                      *)
(*                                                                         *)
(* An expense is [amount, paidBy, splitType, participants], participants a *)
(* sequence of [userId, value].  amount is in cents; value is in           *)
(* hundredths of a percent for PERCENTAGE, in cents for CUSTOM, a whole    *)
(* weight for SHARES, and unused for EQUAL.  A JavaScript Map is the       *)
(* sequence of its entries in insertion order.  Display names are left     *)
(* out: nothing is computed from them.                                     *)
(***************************************************************************)
SplitTypes == {"EQUAL", "PERCENTAGE", "CUSTOM", "SHARES"}

RECURSIVE IndexOfKey(_, _, _)
IndexOfKey(s, field, key) ==
  IF s = <<>> THEN 0
  ELSE IF Head(s)[field] = key THEN 1
  ELSE LET i == IndexOfKey(Tail(s), field, key) IN IF i = 0 THEN 0 ELSE i + 1

\* Array.prototype.sort((a, b) => b[field] - a[field]): stable, descending
RECURSIVE InsertDesc(_, _, _)
InsertDesc(sorted, x, field) ==
  IF sorted = <<>> THEN <<x>>
  ELSE IF Head(sorted)[field] >= x[field]
    THEN <<Head(sorted)>> \o InsertDesc(Tail(sorted), x, field)
    ELSE <<x>> \o sorted

RECURSIVE SortDescFrom(_, _, _)
SortDescFrom(sorted, rest, field) ==
  IF rest = <<>> THEN sorted
  ELSE SortDescFrom(InsertDesc(sorted, Head(rest), field), Tail(rest), field)

SortDesc(s, field) == SortDescFrom(<<>>, s, field)

RECURSIVE MapSetNew(_, _)
MapSetNew(names, ids) ==
  IF ids = <<>> THEN names
  ELSE MapSetNew(IF \E i \in 1..Len(names) : names[i] = Head(ids)
                   THEN names ELSE Append(names, Head(ids)),
                 Tail(ids))

\* BalanceCalculator.initializeUserNames: the keys of userNames
RECURSIVE initializeUserNames(_, _)
initializeUserNames(names, exps) ==
  IF exps = <<>> THEN names
  ELSE LET e == Head(exps)
       IN  initializeUserNames(
             MapSetNew(names, <<e.paidBy>> \o
                              [i \in 1..Len(e.participants) |-> e.participants[i].userId]),
             Tail(exps))

Values(e) == [i \in 1..Len(e.participants) |-> e.participants[i].value]

WithAmounts(e, amounts) ==
  [i \in 1..Len(e.participants) |->
     [userId |-> e.participants[i].userId,
      value  |-> e.participants[i].value,
      amount |-> amounts[i]]]

\* the shares with the amounts a distribution function returned, or the
\* error it threw
SharesOf(e, amounts) == IF amounts.ok THEN Ok(WithAmounts(e, amounts.val)) ELSE amounts

\* BalanceCalculator.calculateEqualShares
calculateEqualShares(e) == SharesOf(e, distribute(e.amount, Len(e.participants)))

\* BalanceCalculator.calculatePercentageShares
calculatePercentageShares(e) == SharesOf(e, distributeByPercentages(e.amount, Values(e)))

\* BalanceCalculator.calculateCustomShares
calculateCustomShares(e) ==
  IF ~isEqualSum(Values(e), e.amount)
    THEN Err("Custom amounts must sum to total expense amount")
    ELSE Ok(WithAmounts(e, Values(e)))

\* BalanceCalculator.calculateWeightedShares
calculateWeightedShares(e) == SharesOf(e, distributeByShares(e.amount, Values(e)))

\* BalanceCalculator.calculateShares
calculateShares(e) ==
  CASE e.splitType = "EQUAL"      -> calculateEqualShares(e)
    [] e.splitType = "PERCENTAGE" -> calculatePercentageShares(e)
    [] e.splitType = "CUSTOM"     -> calculateCustomShares(e)
    [] e.splitType = "SHARES"     -> calculateWeightedShares(e)
    [] OTHER                      -> Err("Unknown split type: " \o e.splitType)

NewBalance(userId) ==
  [userId |-> userId, balance |-> 0, totalPaid |-> 0, totalOwed |-> 0, totalShare |-> 0]

\* the amount paid replaces the total paid so far
updateUserBalanceLastPaid(balances, userId, paid, owed) ==
  LET i        == IndexOfKey(balances, "userId", userId)
      existing == IF i = 0 THEN NewBalance(userId) ELSE balances[i]
      newPaid  == IF paid # 0 THEN paid ELSE existing.totalPaid
      newShare == IF owed # 0 THEN add(existing.totalShare, owed) ELSE existing.totalShare
      bal      == subtract(newPaid, newShare)
      updated  == [userId     |-> userId,
                   balance    |-> bal,
                   totalPaid  |-> newPaid,
                   totalOwed  |-> IF bal < 0 THEN Abs(bal) ELSE 0,
                   totalShare |-> newShare]
  IN  IF i = 0 THEN Append(balances, updated) ELSE [balances EXCEPT ![i] = updated]

\* BalanceCalculator.updateUserBalance; an amount of 0 is an absent one
\* (if (amounts.paid), if (amounts.owed))
updateUserBalance(balances, userId, paid, owed) ==
  LET i        == IndexOfKey(balances, "userId", userId)
      existing == IF i = 0 THEN NewBalance(userId) ELSE balances[i]
      newPaid  == IF paid # 0 THEN add(existing.totalPaid, paid) ELSE existing.totalPaid
      newShare == IF owed # 0 THEN add(existing.totalShare, owed) ELSE existing.totalShare
      bal      == subtract(newPaid, newShare)
      updated  == [userId     |-> userId,
                   balance    |-> bal,
                   totalPaid  |-> newPaid,
                   totalOwed  |-> IF bal < 0 THEN Abs(bal) ELSE 0,
                   totalShare |-> newShare]
  IN  IF i = 0 THEN Append(balances, updated) ELSE [balances EXCEPT ![i] = updated]

\* BalanceCalculator.updateDebtGraph
updateDebtGraph(graph, debtor, creditor, amount) ==
  LET i     == IndexOfKey(graph, "debtor", debtor)
      g     == IF i = 0 THEN Append(graph, [debtor |-> debtor, creditors |-> <<>>]) ELSE graph
      di    == IF i = 0 THEN Len(g) ELSE i
      cs    == g[di].creditors
      j     == IndexOfKey(cs, "creditor", creditor)
      debt  == IF j = 0 THEN 0 ELSE cs[j].amount
      entry == [creditor |-> creditor, amount |-> add(debt, amount)]
  IN  [g EXCEPT ![di].creditors = IF j = 0 THEN Append(cs, entry)
                                            ELSE [cs EXCEPT ![j] = entry]]

\* the loop over the shares in BalanceCalculator.processExpense
RECURSIVE ApplyShares(_, _, _)
ApplyShares(st, shares, paidBy) ==
  IF shares = <<>> THEN st
  ELSE LET share == Head(shares)
           ub    == updateUserBalance(st.userBalances, share.userId, 0, share.amount)
           dg    == IF share.userId # paidBy
                      THEN updateDebtGraph(st.debtGraph, share.userId, paidBy, share.amount)
                      ELSE st.debtGraph
       IN  ApplyShares([userBalances |-> ub, debtGraph |-> dg], Tail(shares), paidBy)

\* processExpense once calculateShares has returned the shares or thrown
ProcessShares(st, e, shares) ==
  IF ~shares.ok THEN shares
  ELSE Ok(ApplyShares(
            [userBalances |-> updateUserBalance(st.userBalances, e.paidBy, e.amount, 0),
             debtGraph    |-> st.debtGraph],
            shares.val, e.paidBy))

\* BalanceCalculator.processExpense: the maps after the expense, or the error
\* thrown by calculateShares before anything is updated
processExpense(st, e) == ProcessShares(st, e, calculateShares(e))

\* this.expenses.forEach(expense => this.processExpense(expense)): the first
\* expense that throws ends the loop
RECURSIVE ProcessAll(_, _)

\* the loop after an expense: on with the rest, or out with the error
ProcessRest(next, rest) == IF next.ok THEN ProcessAll(next.val, rest) ELSE next

ProcessAll(st, exps) ==
  IF exps = <<>> THEN Ok(st)
  ELSE ProcessRest(processExpense(st, Head(exps)), Tail(exps))

\* BalanceCalculator.ensureAllUsersHaveBalances
RECURSIVE ensureAllUsersHaveBalances(_, _)
ensureAllUsersHaveBalances(balances, names) ==
  IF names = <<>> THEN balances
  ELSE ensureAllUsersHaveBalances(
         IF IndexOfKey(balances, "userId", Head(names)) = 0
           THEN Append(balances, NewBalance(Head(names))) ELSE balances,
         Tail(names))

\* calculateBalances once the loop over the expenses has ended
EnsureAll(done, names) ==
  IF ~done.ok THEN done
  ELSE Ok([userBalances |-> ensureAllUsersHaveBalances(done.val.userBalances, names),
           debtGraph    |-> done.val.debtGraph])

\* BalanceCalculator.calculateBalances
calculateBalances(exps, names) ==
  EnsureAll(ProcessAll([userBalances |-> <<>>, debtGraph |-> <<>>], exps), names)

\* BalanceCalculator.getUserBalances
getUserBalances(balances) == SortDesc(balances, "balance")

\* the edges of the debt graph, debtor by debtor, in insertion order
RECURSIVE Edges(_)
Edges(graph) ==
  IF graph = <<>> THEN <<>>
  ELSE [j \in 1..Len(Head(graph).creditors) |->
          [debtor   |-> Head(graph).debtor,
           creditor |-> Head(graph).creditors[j].creditor,
           amount   |-> Head(graph).creditors[j].amount]]
       \o Edges(Tail(graph))

\* BalanceCalculator.getDebtRelationships
getDebtRelationships(graph) ==
  SortDesc(SelectSeq(Edges(graph), LAMBDA r : AboveTolerance(r.amount)), "amount")

\* BalanceCalculator.computeNetBalances
RECURSIVE FoldEdges(_, _)
FoldEdges(net, edges) ==
  IF edges = <<>> THEN net
  ELSE LET edge == Head(edges)
           d    == IndexOfKey(net, "person", edge.debtor)
           c    == IndexOfKey(net, "person", edge.creditor)
           n1   == [net EXCEPT ![d].balance = subtract(net[d].balance, edge.amount)]
           n2   == [n1 EXCEPT ![c].balance = add(net[c].balance, edge.amount)]
       IN  FoldEdges(n2, Tail(edges))

computeNetBalances(names, graph) ==
  FoldEdges([i \in 1..Len(names) |-> [person |-> names[i], balance |-> 0]], Edges(graph))

\* the while loop of BalanceCalculator.optimizeSettlements
RECURSIVE Match(_, _, _, _, _)
Match(creditors, debtors, creditorIndex, debtorIndex, settlements) ==
  IF ~(creditorIndex <= Len(creditors) /\ debtorIndex <= Len(debtors)) THEN settlements
  ELSE LET creditAmount == creditors[creditorIndex].amount
           debtAmount   == debtors[debtorIndex].amount
           settleAmount == IF creditAmount <= debtAmount THEN creditAmount ELSE debtAmount
           cs == [creditors EXCEPT ![creditorIndex].amount = subtract(creditAmount, settleAmount)]
           ds == [debtors EXCEPT ![debtorIndex].amount = subtract(debtAmount, settleAmount)]
       IN  Match(cs, ds,
                 IF isZero(cs[creditorIndex].amount) THEN creditorIndex + 1 ELSE creditorIndex,
                 IF isZero(ds[debtorIndex].amount) THEN debtorIndex + 1 ELSE debtorIndex,
                 IF AboveTolerance(settleAmount)
                   THEN Append(settlements, [from   |-> debtors[debtorIndex].person,
                                             to     |-> creditors[creditorIndex].person,
                                             amount |-> settleAmount])
                   ELSE settlements)

\* the creditors of optimizeSettlements, before sorting
Creditors(net) ==
  LET sel == SelectSeq(net, LAMBDA r : AboveTolerance(r.balance))
  IN  [i \in 1..Len(sel) |-> [person |-> sel[i].person, amount |-> sel[i].balance]]

\* the debtors of optimizeSettlements, before sorting
Debtors(net) ==
  LET sel == SelectSeq(net, LAMBDA r : r.balance < -1)
  IN  [i \in 1..Len(sel) |-> [person |-> sel[i].person, amount |-> Abs(sel[i].balance)]]

\* one settlement for every debt of the graph, nothing netted
settleEveryDebt(names, graph) ==
  [i \in 1..Len(Edges(graph)) |->
     [from |-> Edges(graph)[i].debtor, to |-> Edges(graph)[i].creditor,
      amount |-> Edges(graph)[i].amount]]

\* BalanceCalculator.optimizeSettlements
optimizeSettlements(names, graph) ==
  LET net == computeNetBalances(names, graph)
  IN  SortDesc(Match(SortDesc(Creditors(net), "amount"),
                     SortDesc(Debtors(net), "amount"), 1, 1, <<>>),
               "amount")

Amounts(s) == [i \in 1..Len(s) |-> s[i].amount]

\* CurrencyUtils.divide(totalExpenses, size), totalExpenses being the
\* unrounded running sum of the expense amounts
divideSum(amounts, size) ==
  IF size = 0 THEN Err("Division by zero")
  ELSE IF IsHalf(SumSeq(amounts), size)
    THEN Ok(round(DblDivSmall(ReduceSum(amounts), size)))
    ELSE Ok(RoundHalfUp(SumSeq(amounts), size))

\* BalanceCalculator.getCalculationResult; totalExpenses and
\* totalSettlementAmount are running sums that the code does not round:
\* they are doubles
BalanceCalculationResult(exps, graph, ub, settlements, average) ==
  IF ~average.ok THEN average
  ELSE Ok([userBalances      |-> ub,
           debtRelationships |-> getDebtRelationships(graph),
           settlements       |-> settlements,
           totalExpenses     |-> ReduceSum(Amounts(exps)),
           summary |-> [totalTransactions     |-> Len(settlements),
                        totalSettlementAmount |-> ReduceSum(Amounts(settlements)),
                        averagePerPerson      |-> average.val,
                        isBalanced            |-> \A i \in 1..Len(ub) : isZero(ub[i].balance)]])

getCalculationResult(exps, names, balances, graph) ==
  BalanceCalculationResult(exps, graph,
                           getUserBalances(balances),
                           optimizeSettlements(names, graph),
                           divideSum(Amounts(exps), Len(names)))

(***************************************************************************)
(* The balance endpoint GET /api/balances/[tripId] (part_014).             *)
(*                                                                         *)
(* A stored expense is [amount, paidBy, sharedBy], amount in cents.  The   *)
(* endpoint adds and subtracts numbers without rounding them, so its       *)
(* totals and the balances it has worked on are doubles here; the amounts  *)
(* it rounds with Math.round(x * 100) / 100 are cents.                     *)
(***************************************************************************)
\* Math.round((amount / sharedBy.length) * 100) / 100, in cents; without
\* anybody to share with the division is by zero, which gives no number
\* of cents
shareAmount(amount, n) ==
  IF n # 0 THEN divide(amount, n).val
  ELSE IF amount = 0 THEN "NaN"
  ELSE IF amount > 0 THEN "Infinity"
  ELSE "-Infinity"

\* the entry a user gets on first appearance, added if it is not there
ApiEnsure(balances, userId) ==
  IF IndexOfKey(balances, "userId", userId) # 0 THEN balances
  ELSE Append(balances, [userId |-> userId, totalPaid |-> DblZero, totalShare |-> DblZero])

\* payerBalance.totalPaid += amount
ApiPaid(balances, paidBy, amount) ==
  [balances EXCEPT ![IndexOfKey(balances, "userId", paidBy)].totalPaid =
                      DblAdd(@, Num(amount))]

\* participantBalance.totalShare += shareAmount, for each of sharedBy
RECURSIVE ApiShared(_, _, _)
ApiShared(balances, sharedBy, share) ==
  IF sharedBy = <<>> THEN balances
  ELSE ApiShared([ApiEnsure(balances, Head(sharedBy)) EXCEPT
                    ![IndexOfKey(ApiEnsure(balances, Head(sharedBy)), "userId",
                                 Head(sharedBy))].totalShare = DblAdd(@, Num(share))],
                 Tail(sharedBy), share)

\* the loop over the expenses in calculateBasicBalances
RECURSIVE ApiAccumulate(_, _)
ApiAccumulate(balances, exps) ==
  IF exps = <<>> THEN balances
  ELSE ApiAccumulate(
         ApiShared(ApiPaid(ApiEnsure(balances, Head(exps).paidBy),
                           Head(exps).paidBy, Head(exps).amount),
                   Head(exps).sharedBy,
                   shareAmount(Head(exps).amount, Len(Head(exps).sharedBy))),
         Tail(exps))

\* Math.round((balance.totalPaid - balance.totalShare) * 100) / 100, in cents
ApiNet(b) == round(DblSub(b.totalPaid, b.totalShare))

\* the entries with their net balances, largest first
ApiNetSorted(balances) ==
  SortDesc([i \in 1..Len(balances) |->
              [userId |-> balances[i].userId, cents |-> ApiNet(balances[i]),
               totalPaid |-> balances[i].totalPaid,
               totalShare |-> balances[i].totalShare]],
           "cents")

\* calculateBasicBalances of the endpoint: balance and totalOwed are the
\* doubles of a whole number of cents
ApiBalances(sorted) ==
  [i \in 1..Len(sorted) |->
     [userId     |-> sorted[i].userId,
      balance    |-> Num(sorted[i].cents),
      totalPaid  |-> sorted[i].totalPaid,
      totalOwed  |-> IF sorted[i].cents < 0 THEN Num(0 - sorted[i].cents) ELSE DblZero,
      totalShare |-> sorted[i].totalShare]]

calculateBasicBalances(exps) == ApiBalances(ApiNetSorted(ApiAccumulate(<<>>, exps)))

\* Math.min(a, b)
DblMin(a, b) == IF DblLess(b, a) THEN b ELSE a

\* the settlement of one debtor with one creditor pushed, and both amounts
\* reduced: remainingDebt -= settleAmount; creditor.balance -= settleAmount
ApiSettle(st, c, settleAmount) ==
  IF ~DblLess(Tolerance, settleAmount) THEN st
  ELSE [st EXCEPT
          !.settlements = Append(@, [from   |-> st.from,
                                     to     |-> st.balances[c].userId,
                                     amount |-> round(settleAmount)]),
          !.remainingDebt = DblSub(@, settleAmount),
          !.balances[c].balance = DblSub(@, settleAmount)]

\* for (const creditor of creditors), cs being the creditors still to visit
RECURSIVE ApiCreditorLoop(_, _)
ApiCreditorLoop(st, cs) ==
  IF cs = <<>> THEN st
  ELSE IF DblLess(st.remainingDebt, Tolerance) THEN st
  ELSE IF DblLess(st.balances[Head(cs)].balance, Tolerance)
    THEN ApiCreditorLoop(st, Tail(cs))
  ELSE ApiCreditorLoop(
         ApiSettle(st, Head(cs),
                   DblMin(st.remainingDebt, st.balances[Head(cs)].balance)),
         Tail(cs))

\* for (const debtor of debtors), ds being the debtors still to visit
RECURSIVE ApiDebtorLoop(_, _, _)
ApiDebtorLoop(st, ds, cs) ==
  IF ds = <<>> THEN st
  ELSE ApiDebtorLoop(
         ApiCreditorLoop([st EXCEPT !.from = st.balances[Head(ds)].userId,
                                    !.remainingDebt = DblAbs(st.balances[Head(ds)].balance)],
                         cs),
         Tail(ds), cs)

\* userBalances.filter(b => b.balance > 0.01) and the filter of the debtors:
\* the positions of the entries kept, which are the objects returned
ApiCreditors(balances) ==
  SelectSeq([i \in 1..Len(balances) |-> i],
            LAMBDA i : DblLess(Tolerance, balances[i].balance))

ApiDebtors(balances) ==
  SelectSeq([i \in 1..Len(balances) |-> i],
            LAMBDA i : DblLess(balances[i].balance, DblNeg(Tolerance)))

\* calculateSettlements of the endpoint: the settlements before the final
\* sort, and the entries as the loops leave them
ApiSettled(balances) ==
  ApiDebtorLoop([balances |-> balances, settlements |-> <<>>,
                 from |-> "", remainingDebt |-> DblZero],
                ApiDebtors(balances), ApiCreditors(balances))

calculateSettlements(balances) == SortDesc(ApiSettled(balances).settlements, "amount")

\* the amounts of the stored expenses
ApiAmounts(exps) == [i \in 1..Len(exps) |-> exps[i].amount]

\* the data of the response, from the entries and the settlements that
\* calculateSettlements leaves
ApiResult(exps, balances, settlements) ==
  [userBalances  |-> balances,
   settlements   |-> settlements,
   totalExpenses |-> ReduceSum(ApiAmounts(exps)),
   summary |-> [totalTransactions     |-> Len(settlements),
                totalSettlementAmount |-> round(ReduceSum(Amounts(settlements))),
                averagePerPerson      |-> IF Len(balances) > 0
                                            THEN divideSum(ApiAmounts(exps), Len(balances)).val
                                            ELSE 0,
                isBalanced            |-> \A i \in 1..Len(balances) :
                                             DblLess(DblAbs(balances[i].balance), Tolerance)]]

\* the response of a trip without expenses
ApiEmptyResult ==
  [userBalances |-> <<>>, settlements |-> <<>>, totalExpenses |-> DblZero,
   summary |-> [totalTransactions |-> 0, totalSettlementAmount |-> 0,
                averagePerPerson |-> 0, isBalanced |-> TRUE]]

\* the handler of GET /api/balances/[tripId], for a trip that exists
ApiHandle(exps, balances) ==
  IF exps = <<>> THEN ApiEmptyResult
  ELSE ApiResult(exps, ApiSettled(balances).balances, calculateSettlements(balances))

handler(exps) == ApiHandle(exps, calculateBasicBalances(exps))

(***************************************************************************)
(* The settlement loop of the pages (TripSummary.tsx; TripForm.tsx and     *)
(* test-settlement.js hold the same loop).  The pages work on the numbers  *)
(* as they are, without rounding: every amount here is a double.           *)
(***************************************************************************)
\* participantBalances.set(person.name, {totalPaid: 0, fairShare: 0, ...}):
\* the Map has one entry for a name, at the place where the name came first
RECURSIVE UiNewFrom(_, _)
UiNewFrom(balances, people) ==
  IF people = <<>> THEN balances
  ELSE UiNewFrom(
         IF IndexOfKey(balances, "name", Head(people)) # 0 THEN balances
         ELSE Append(balances, [name |-> Head(people),
                                totalPaid |-> DblZero, fairShare |-> DblZero]),
         Tail(people))

\* trip.people.forEach(person => participantBalances.set(person.name, ...))
UiNew(people) == UiNewFrom(<<>>, people)

\* paidByBalance.totalPaid += expense.amount, if the payer is on the trip
UiPaid(balances, e) ==
  IF IndexOfKey(balances, "name", e.paidBy) = 0 THEN balances
  ELSE [balances EXCEPT ![IndexOfKey(balances, "name", e.paidBy)].totalPaid =
                          DblAdd(@, Num(e.amount))]

\* balance.fairShare += sharePerPerson, for each of sharedBy on the trip
RECURSIVE UiShared(_, _, _)
UiShared(balances, sharedBy, sharePerPerson) ==
  IF sharedBy = <<>> THEN balances
  ELSE UiShared(
         IF IndexOfKey(balances, "name", Head(sharedBy)) = 0 THEN balances
         ELSE [balances EXCEPT ![IndexOfKey(balances, "name", Head(sharedBy))].fairShare =
                                 DblAdd(@, sharePerPerson)],
         Tail(sharedBy), sharePerPerson)

\* expenses.forEach(...): the totals of every participant
RECURSIVE UiTotals(_, _)
UiTotals(balances, exps) ==
  IF exps = <<>> THEN balances
  ELSE UiTotals(UiShared(UiPaid(balances, Head(exps)), Head(exps).sharedBy,
                         DblDivSmall(Num(Head(exps).amount), Len(Head(exps).sharedBy))),
                Tail(exps))

\* participantBalances.forEach(balance => { balance.balance =
\* balance.totalPaid - balance.fairShare; balances.push(balance) })
UiBalances(totals) ==
  [i \in 1..Len(totals) |->
     [name    |-> totals[i].name,
      balance |-> DblSub(totals[i].totalPaid, totals[i].fairShare)]]

\* calculateParticipantBalances
calculateParticipantBalances(people, exps) == UiBalances(UiTotals(UiNew(people), exps))

\* sort((a, b) => b.balance - a.balance) for way = 1 and
\* sort((a, b) => a.balance - b.balance) for way = -1: x goes behind the
\* entries it does not precede (the sort is stable)
RECURSIVE UiInsert(_, _, _)
UiInsert(sorted, x, way) ==
  IF sorted = <<>> THEN <<x>>
  ELSE IF (IF way = 1 THEN DblLess(Head(sorted).balance, x.balance)
                      ELSE DblLess(x.balance, Head(sorted).balance))
    THEN <<x>> \o sorted
  ELSE <<Head(sorted)>> \o UiInsert(Tail(sorted), x, way)

RECURSIVE UiSort(_, _, _)
UiSort(sorted, rest, way) ==
  IF rest = <<>> THEN sorted ELSE UiSort(UiInsert(sorted, Head(rest), way), Tail(rest), way)

\* optimizeSettlements of the page up to its while loop
UiStart(u, balances) ==
  [u EXCEPT
     !.pc = "while",
     !.creditors = UiSort(<<>>, SelectSeq(balances, LAMBDA b : DblLess(Tolerance, b.balance)), 1),
     !.debtors = UiSort(<<>>, SelectSeq(balances, LAMBDA b : DblLess(b.balance, DblNeg(Tolerance))), -1),
     !.i = 1, !.j = 1, !.settlements = <<>>]

\* i < creditors.length && j < debtors.length
UiMatching(u) == u.i <= Len(u.creditors) /\ u.j <= Len(u.debtors)

\* Math.min(creditor.balance, Math.abs(debtor.balance))
settlementAmount(u) ==
  DblMin(u.creditors[u.i].balance, DblAbs(u.debtors[u.j].balance))

\* if (settlementAmount > 0.01) { settlements.push(...);
\* creditor.balance -= settlementAmount; debtor.balance += settlementAmount }
UiSettle(u, amount) ==
  IF ~DblLess(Tolerance, amount) THEN u
  ELSE [u EXCEPT
          !.settlements = Append(@, [from   |-> u.debtors[u.j].name,
                                     to     |-> u.creditors[u.i].name,
                                     amount |-> amount]),
          !.creditors[u.i].balance = DblSub(@, amount),
          !.debtors[u.j].balance = DblAdd(@, amount)]

\* if (Math.abs(creditor.balance) < 0.01) i++;
\* if (Math.abs(debtor.balance) < 0.01) j++
UiAdvance(u) ==
  [u EXCEPT
     !.i = IF DblLess(DblAbs(u.creditors[u.i].balance), Tolerance) THEN @ + 1 ELSE @,
     !.j = IF DblLess(DblAbs(u.debtors[u.j].balance), Tolerance) THEN @ + 1 ELSE @]

(***************************************************************************)
(* The Settlement model (src/lib/models/Settlement.ts) and the requests    *)
(* on a settlement (src/unnamed/part_012, part_013).                       *)
(*                                                                         *)
(* The amounts of a settlement are in tenths of a cent, so that a payment  *)
(* below one cent is among the inputs: the integer n stands for the        *)
(* JavaScript number written n/1000.  An optional field is <<>> when       *)
(* undefined and <<v>> when it has the value v; only whether paidAt is set *)
(* matters, its date is left out.  A document in memory has, besides the   *)
(* fields of its record, isNew, the set of the paths modified since it was *)
(* loaded or saved, and whether its record has been deleted since.         *)
(***************************************************************************)
\* min: [0.01, ...] of amount and of paidAmount
MinAmount == 10

\* the fields that are stored
Fields(d) ==
  [fromParticipant |-> d.fromParticipant, toParticipant |-> d.toParticipant,
   amount |-> d.amount, status |-> d.status,
   paidAmount |-> d.paidAmount, paidAt |-> d.paidAt]

\* new Settlement({fromParticipant, toParticipant, amount, status,
\* paidAmount: status === 'partially_paid' ? paidAmount : undefined,
\* paidAt: status === 'paid' ? new Date() : undefined})
NewSettlement(body) ==
  [fromParticipant |-> body.fromParticipant, toParticipant |-> body.toParticipant,
   amount |-> body.amount, status |-> body.status,
   paidAmount |-> IF body.status = "partially_paid" THEN body.paidAmount ELSE <<>>,
   paidAt |-> IF body.status = "paid" THEN <<"date">> ELSE <<>>,
   isNew |-> TRUE, modified |-> {}, deleted |-> FALSE]

\* the document that Settlement.findById gives for the record r
Loaded(r) ==
  [fromParticipant |-> r.fromParticipant, toParticipant |-> r.toParticipant,
   amount |-> r.amount, status |-> r.status,
   paidAmount |-> r.paidAmount, paidAt |-> r.paidAt,
   isNew |-> FALSE, modified |-> {}, deleted |-> FALSE]

\* this.path = v: the path is modified if the value is another one; a new
\* Date() is another one than any date
Assign(d, path, v) ==
  [d EXCEPT ![path] = v,
            !.modified = IF v # d[path] \/ (path = "paidAt" /\ v # <<>>)
                           THEN @ \cup {path} ELSE @]

\* the validator of paidAmount, run on a value that is set; d is what
\* `this` is for the validator
PaidAmountValid(d, value) ==
  /\ ~(d.status = "partially_paid" /\ (value = 0 \/ value <= 0 \/ value >= d.amount))
  /\ ~(d.status # "partially_paid" /\ value # 0)

\* the validator of paidAt, run on a value that is set
PaidAtValid(d) == d.status = "paid"

\* the validation of the schema before the save hooks: min and validate
\* of every field, those of an optional field only if it is set
Validates(d) ==
  /\ d.amount >= MinAmount /\ d.amount > 0
  /\ d.paidAmount # <<>> =>
       (d.paidAmount[1] >= MinAmount /\ PaidAmountValid(d, d.paidAmount[1]))
  /\ d.paidAt # <<>> => PaidAtValid(d)

\* if (!this.paidAt) this.paidAt = new Date()
PaidAtDefaulted(d) == IF d.paidAt = <<>> THEN Assign(d, "paidAt", <<"date">>) ELSE d

\* SettlementSchema.pre('save', ...)
preSave(d) ==
  IF d.fromParticipant = d.toParticipant
    THEN Err("Participant cannot owe money to themselves")
  ELSE IF d.status = "paid"
    THEN Ok(Assign(PaidAtDefaulted(d), "paidAmount", <<>>))
  ELSE IF d.status = "partially_paid"
    THEN IF d.paidAmount = <<>> \/ d.paidAmount[1] <= 0 \/ d.paidAmount[1] >= d.amount
           THEN Err("Paid amount must be positive and less than total amount")
           ELSE Ok(Assign(d, "paidAt", <<>>))
  ELSE Ok(Assign(Assign(d, "paidAt", <<>>), "paidAmount", <<>>))

\* the unique index on tripId, fromParticipant, toParticipant, amount, and
\* the query of createSettlement's findOne
SameKey(r, d) ==
  /\ r.fromParticipant = d.fromParticipant
  /\ r.toParticipant = d.toParticipant
  /\ r.amount = d.amount

\* an operation on the document has ended with the outcome given
Ended(s, outcome) == [s EXCEPT !.pc = "idle", !.body = <<>>, !.last = outcome]

\* the record after the paths modified in d are written to it
Written(r, d) ==
  [path \in DOMAIN r |-> IF path \in d.modified THEN d[path] ELSE r[path]]

\* the document after a save that went through
Clean(d) == [d EXCEPT !.isNew = FALSE, !.modified = {}]

\* the write of document.save(), d being the document as the hook left it:
\* a new document is inserted unless the unique index has its key already,
\* a loaded one has its modified paths written to its record if the record
\* is still there.  A record that does not have the key of a new document
\* is another settlement, which is not followed any further.
Store(s, d) ==
  IF d.isNew
    THEN IF s.saved # <<>> /\ SameKey(s.saved[1], d)
           THEN Ended(s, "duplicate")
           ELSE Ended([s EXCEPT !.doc = <<Clean(d)>>, !.saved = <<Fields(d)>>,
                                !.direct = 0], "saved")
  ELSE IF s.saved = <<>> \/ d.deleted
    THEN Ended([s EXCEPT !.doc = <<d>>], "not found")
  ELSE Ended([s EXCEPT !.doc = <<Clean(d)>>, !.saved = <<Written(s.saved[1], d)>>],
             "saved")

\* document.save() once it is carried out: the validation, the hook, the
\* write; a save that is rejected leaves the record as it is
save(s) ==
  IF ~Validates(s.doc[1]) THEN Ended(s, "rejected")
  ELSE IF ~preSave(s.doc[1]).ok THEN Ended(s, "rejected")
  ELSE Store(s, preSave(s.doc[1]).val)

\* return this.save() of a method that has changed the document to d: the
\* save is begun, and carried out later
Saving(s, d) == [s EXCEPT !.doc = <<d>>, !.pc = "save"]

\* an exception thrown before anything is changed
thrown(s) == [s EXCEPT !.last = "thrown"]

\* markAsPaid
markAsPaid(s) ==
  Saving(s, Assign(Assign(Assign(s.doc[1], "status", "paid"), "paidAt", <<"date">>),
                   "paidAmount", <<>>))

\* the guard of markAsPartiallyPaid lets every amount below the total pass
AnyAmountBelow(d, amount) == amount >= d.amount

\* if (amount <= 0 || amount >= this.amount) throw ...
OutOfRange(d, amount) == amount <= 0 \/ amount >= d.amount

\* markAsPartiallyPaid(amount)
markAsPartiallyPaid(s, amount) ==
  IF OutOfRange(s.doc[1], amount) THEN thrown(s)
  ELSE Saving(s, Assign(Assign(Assign(s.doc[1], "status", "partially_paid"),
                               "paidAmount", <<amount>>), "paidAt", <<>>))

\* markAsPending
markAsPending(s) ==
  Saving(s, Assign(Assign(Assign(s.doc[1], "status", "pending"), "paidAt", <<>>),
                   "paidAmount", <<>>))

\* the JavaScript number written n/1000
Thousandths(n) == DblFromRatio(n, 1000)

\* this.amount - (this.paidAmount || 0)
AmountLeft(d) ==
  DblSub(Thousandths(d.amount),
         IF d.paidAmount = <<>> THEN DblZero ELSE Thousandths(d.paidAmount[1]))

\* getRemainingAmount
getRemainingAmount(d) ==
  IF d.status = "paid" THEN DblZero
  ELSE IF d.status = "partially_paid" THEN AmountLeft(d)
  ELSE Thousandths(d.amount)

\* Math.max(0, x)
MaxWithZero(x) == IF DblLess(DblZero, x) THEN x ELSE DblZero

\* the virtual remainingAmount: Math.max(0, this.amount - (this.paidAmount || 0))
remainingAmount(d) == MaxWithZero(AmountLeft(d))

\* the body of POST /api/settlements is refused with 400 (part_013 lines
\* 57-90): the amounts here are numbers other than 0
BodyRefused(body) ==
  \/ body.amount <= 0
  \/ /\ body.status = "partially_paid"
     /\ (body.paidAmount = <<>> \/ body.paidAmount[1] = 0 \/ body.paidAmount[1] <= 0
         \/ body.paidAmount[1] >= body.amount)

\* what `this` is for the validators that findByIdAndUpdate runs: the
\* query, which has neither status nor amount
TheQuery == [status |-> "undefined", amount |-> "undefined"]

\* runValidators: true: the validators of the paths that the update sets
UpdateValidates(update) ==
  /\ "amount" \in DOMAIN update => (update.amount >= MinAmount /\ update.amount > 0)
  /\ "paidAmount" \in DOMAIN update =>
       (update.paidAmount[1] >= MinAmount /\ PaidAmountValid(TheQuery, update.paidAmount[1]))
  /\ "paidAt" \in DOMAIN update => PaidAtValid(TheQuery)

\* Settlement.findByIdAndUpdate(id, update, {new: true, runValidators:
\* true}): the keys that are undefined are not part of the update, which
\* is the function holding the others; an update that is not valid, or
\* that finds no record, changes nothing
findByIdAndUpdate(s, update) ==
  IF ~UpdateValidates(update) \/ s.saved = <<>> THEN s
  ELSE [s EXCEPT !.saved = <<[path \in DOMAIN s.saved[1] |->
                                IF path \in DOMAIN update THEN update[path]
                                ELSE s.saved[1][path]]>>,
                 !.direct = @ + 1]

\* the update that the handlers build for a status (part_012 lines 81-95
\* and 143-158): paidAt and paidAmount are set or undefined
StatusUpdate(status, paidAmount) ==
  IF status = "paid" THEN [status |-> "paid", paidAt |-> <<"date">>]
  ELSE IF status = "partially_paid"
    THEN [status |-> "partially_paid", paidAmount |-> paidAmount]
  ELSE [status |-> "pending"]

\* the answer 400 for partially_paid without a paid amount above 0
PaidAmountMissing(status, paidAmount) ==
  /\ status = "partially_paid"
  /\ (paidAmount = <<>> \/ paidAmount[1] = 0 \/ paidAmount[1] <= 0)

\* updateSettlementStatus (PATCH) and updateSettlement (PUT) with a status
\* in the body
updateSettlementStatus(s, status, paidAmount) ==
  IF PaidAmountMissing(status, paidAmount) THEN s
  ELSE findByIdAndUpdate(s, StatusUpdate(status, paidAmount))

\* updateSettlement (PUT) with fields other than the status in the body
updateSettlement(s, update) ==
  IF "amount" \in DOMAIN update /\ update.amount <= 0 THEN s
  ELSE findByIdAndUpdate(s, update)

(***************************************************************************)
(* The inputs.                                                             *)
(*                                                                         *)
(* A caller hands the calculator a list of up to MaxExpenses expenses of   *)
(* a group of three.  One of them may be any expense of ExpenseInputs: any *)
(* split type, any payer, a negative, zero or positive amount in cents,    *)
(* any selection of the group as participants with any values, well formed *)
(* or not.  The others are plain ones: a positive amount split equally     *)
(* among the whole group, paid by any member.                              *)
(***************************************************************************)
MaxExpenses == 2

Group == <<"alice", "bob", "charlie">>

Users == {Group[i] : i \in 1..Len(Group)}

\* amounts in cents
AmountValues == {-1, 0, 1, 2}

PlainAmounts == {1, 2}

\* 50% and 100%, in hundredths of a percent
PercentValues == {5000, 10000}

CustomValues == {1, 2}

Weights == {-1, 1}

ValuesOf(splitType) ==
  CASE splitType = "EQUAL"      -> {1}
    [] splitType = "PERCENTAGE" -> PercentValues
    [] splitType = "CUSTOM"     -> CustomValues
    [] splitType = "SHARES"     -> Weights

\* the members of the group a 0/1 mask selects, in the group's order
RECURSIVE Select(_, _)
Select(mask, i) ==
  IF i > Len(Group) THEN <<>>
  ELSE IF mask[i] = 1 THEN <<Group[i]>> \o Select(mask, i + 1)
  ELSE Select(mask, i + 1)

Selections == {Select(mask, 1) : mask \in [1..Len(Group) -> {0, 1}]}

\* the participant lists: a selection of the group, each with a value
ParticipantLists(values) ==
  UNION {
    {[i \in 1..Len(who) |-> [userId |-> who[i], value |-> v[i]]] :
       v \in [1..Len(who) -> values]}
    : who \in Selections}

ExpenseInputs ==
  UNION {
    [amount : AmountValues, paidBy : Users, splitType : {t},
     participants : ParticipantLists(ValuesOf(t))]
    : t \in SplitTypes}

PlainInputs ==
  [amount : PlainAmounts, paidBy : Users, splitType : {"EQUAL"},
   participants : {[i \in 1..Len(Group) |-> [userId |-> Group[i], value |-> 1]]}]

AllPlain(exps) == \A i \in 1..Len(exps) : exps[i] \in PlainInputs

\* the calls of the distribution functions: a total of -1 to MaxTotal cents
\* or the 100.00 of the tests, and up to MaxLen values
MaxTotal == 29
MaxLen == 3
MaxShare == 3
TestTotal == 10000

Totals == {-1} \cup (0..MaxTotal) \cup {TestTotal}

CallPercents == {0, 2500, 3000, 3333, 3334, 5000, 7000, 10000}

CallShares == {-2, -1} \cup (0..MaxShare)

ValueLists(values) == UNION {[1..k -> values] : k \in 0..MaxLen}

CurrencyCalls ==
  UNION {
    [fn : {"distribute"}, total : Totals, values : ValueLists({1}), out : {<<>>}],
    [fn : {"distributeByPercentages"}, total : Totals,
     values : ValueLists(CallPercents), out : {<<>>}],
    [fn : {"distributeByShares"}, total : Totals,
     values : ValueLists(CallShares), out : {<<>>}]}

NoCall == [fn |-> "none", total |-> 0, values |-> <<>>, out |-> <<>>]

\* the trips of the test suite: up to MaxTrip different expenses of it, in
\* any combination and order
MaxTrip == 3
SmallAmount == 3
SharedAmount == 3000

\* createTestExpense(id, amount, paidBy, participants): an EQUAL expense
createTestExpense(amount, paidBy, who) ==
  [amount |-> amount, paidBy |-> paidBy, splitType |-> "EQUAL",
   participants |-> [i \in 1..Len(who) |-> [userId |-> who[i], value |-> 1]]]

TestExpenses ==
  { createTestExpense(TestTotal, "alice", <<"alice", "bob", "charlie">>),
    createTestExpense(SmallAmount, "alice", <<"alice", "bob">>),
    createTestExpense(TestTotal, "alice", <<"alice", "bob">>),
    createTestExpense(TestTotal, "bob", <<"bob", "charlie">>),
    createTestExpense(TestTotal, "charlie", <<"charlie", "dave">>),
    createTestExpense(TestTotal, "alice", <<"alice", "bob", "charlie", "dave">>),
    createTestExpense(SharedAmount, "alice", <<"alice", "bob", "charlie">>),
    createTestExpense(SharedAmount, "bob", <<"alice", "bob", "charlie">>) }

\* the calls of getOptimizedSettlements made on one calculator
MaxCalls == 2

\* no call of optimizeSettlements made yet
NoLoop ==
  [pc |-> "idle", creditors |-> <<>>, debtors |-> <<>>,
   creditorIndex |-> 1, debtorIndex |-> 1, settlements |-> <<>>,
   iterations |-> 0, returned |-> <<>>]

\* the expenses stored for a trip whose balances are requested: up to
\* MaxStored of them
MaxStored == 2

StoredAmounts == {SmallAmount, TestTotal}

StoredExpenses ==
  { [amount |-> a, paidBy |-> p, sharedBy |-> who] :
      a \in StoredAmounts, p \in {"alice", "bob"},
      who \in {<<"alice", "bob">>, <<"alice", "bob", "charlie">>} }

\* BalanceCalculator.convertFromLegacyExpense: the stored expense as an
\* EQUAL expense of its sharedBy, each with value 1
convertFromLegacyExpense(e) ==
  [amount |-> e.amount, paidBy |-> e.paidBy, splitType |-> "EQUAL",
   participants |-> [i \in 1..Len(e.sharedBy) |-> [userId |-> e.sharedBy[i], value |-> 1]]]

\* the requests that change the stored expenses of the trip: up to
\* MaxWrites of them are served
MaxWrites == 3

\* no expense stored, no request made: expenses is the collection in the
\* order of the query (sort({date: -1})), pc the place of the request for
\* the balances, found the documents its query returned, response <<r>>
\* once it has answered with the data r
NoApi ==
  [expenses |-> <<>>, writes |-> 0, pc |-> "idle", found |-> <<>>, response |-> <<>>]

\* the documents with x put at place k
InsertAt(docs, k, x) == SubSeq(docs, 1, k - 1) \o <<x>> \o SubSeq(docs, k, Len(docs))

\* the documents without the one at place k
RemoveAt(docs, k) == SubSeq(docs, 1, k - 1) \o SubSeq(docs, k + 1, Len(docs))

\* the expenses a page is given for its trip of four: up to MaxShown of
\* them, each at most once
MaxShown == 3

People == <<"alice", "bob", "charlie", "dave">>

ShownExpenses ==
  { [amount |-> 2, paidBy |-> "charlie", sharedBy |-> <<"dave", "charlie">>],
    [amount |-> 4, paidBy |-> "dave", sharedBy |-> <<"charlie", "bob", "alice">>],
    [amount |-> 2, paidBy |-> "bob", sharedBy |-> <<"dave", "bob", "charlie">>],
    [amount |-> 80000, paidBy |-> "alice", sharedBy |-> People],
    [amount |-> 12000, paidBy |-> "alice", sharedBy |-> <<"alice", "bob", "charlie">>],
    [amount |-> 4500, paidBy |-> "bob", sharedBy |-> <<"bob", "charlie">>] }

\* a page before it computes settlements
NoUi ==
  [pc |-> "input", expenses |-> <<>>, creditors |-> <<>>, debtors |-> <<>>,
   i |-> 1, j |-> 1, settlements |-> <<>>]

\* the requests that change the record of a settlement without its
\* document: up to MaxDirect of them are served on a record
MaxDirect == 1

\* the settlements created, the amounts they are changed to and the
\* payments reported, in tenths of a cent
SettlementAmounts == {5, 30}

NewAmounts == {5, 20}

PaidAmounts == {-10, 0, 5, 10, 20, 30}

Statuses == {"pending", "paid", "partially_paid"}

\* a paid amount in a body: none, or one of the payments
BodyPaidAmounts == {<<>>} \cup {<<p>> : p \in PaidAmounts}

\* the bodies of POST /api/settlements
SettlementBodies ==
  { [fromParticipant |-> "bob", toParticipant |-> to, amount |-> a,
     status |-> st, paidAmount |-> pa] :
      to \in {"alice", "bob"}, a \in SettlementAmounts,
      st \in Statuses, pa \in BodyPaidAmounts }

\* the bodies of PUT /api/settlements/[id] that have no status
SettlementUpdates ==
  { [amount |-> a] : a \in NewAmounts }
    \cup { [paidAmount |-> <<p>>] : p \in PaidAmounts }

\* no settlement yet: doc is the document in memory, saved its record, pc
\* the place of the operation on the document (for a POST with its body),
\* direct the number of requests that have changed the record without
\* the document, last the outcome of the last operation on the document
NoSettlement ==
  [doc |-> <<>>, saved |-> <<>>, pc |-> "idle", body |-> <<>>,
   direct |-> 0, last |-> "none"]

(***************************************************************************)
(* The calculator as a state machine.                                      *)
(***************************************************************************)
VARIABLES
  expenses,      \* the list the caller is putting together, then this.expenses
  status,        \* "input": no calculator yet; "ready": constructed;
                 \* "failed": the constructor threw
  userNames,     \* this.userNames (keys, in insertion order)
  userBalances,  \* this.userBalances (values, in insertion order)
  debtGraph,     \* this.debtGraph
  error,         \* the message of the last error thrown, or "none"
  result,        \* <<r>> once getCalculationResult has returned r, else <<>>
  call,          \* a direct call of a CurrencyUtils distribution function:
                 \* its arguments, and <<r>> once it has returned or thrown r
  loop,          \* a call of optimizeSettlements under way: its local
                 \* variables, and the plan once it has returned
  api,           \* the expenses stored for a trip and the request for
                 \* its balances: where its handler is, the documents
                 \* it found, and <<r>> once it has answered r
  ui,            \* the settlement loop of the pages: the expenses it is
                 \* given and its local variables
  settlement     \* a Settlement document in memory, the record saved
                 \* for it, and the operation on the document in flight

vars == <<expenses, status, userNames, userBalances, debtGraph, error, result, call, loop, api, ui, settlement>>

Init ==
  /\ expenses = <<>>
  /\ status = "input"
  /\ userNames = <<>>
  /\ userBalances = <<>>
  /\ debtGraph = <<>>
  /\ error = "none"
  /\ result = <<>>
  /\ call = NoCall
  /\ loop = NoLoop
  /\ api = NoApi
  /\ ui = NoUi
  /\ settlement = NoSettlement

\* the caller adds an expense record to the list it will pass
AddExpense ==
  /\ status = "input"
  /\ Len(expenses) < MaxExpenses
  /\ \E e \in PlainInputs \cup (IF AllPlain(expenses) THEN ExpenseInputs ELSE {}) :
       expenses' = Append(expenses, e)
  /\ UNCHANGED <<status, userNames, userBalances, debtGraph, error, result, call, loop, api, ui, settlement>>

\* new BalanceCalculator(expenses)
Constructed(names, done) ==
  IF done.ok
    THEN /\ status' = "ready"
         /\ userNames' = names
         /\ userBalances' = done.val.userBalances
         /\ debtGraph' = done.val.debtGraph
         /\ error' = error
    ELSE /\ status' = "failed"
         /\ error' = done.err
         /\ UNCHANGED <<userNames, userBalances, debtGraph>>

Construct ==
  /\ status = "input"
  /\ Constructed(initializeUserNames(<<>>, expenses),
                 calculateBalances(expenses, initializeUserNames(<<>>, expenses)))
  /\ UNCHANGED <<expenses, result, call, loop, api, ui, settlement>>

\* calculator.getCalculationResult()
ReturnedOrThrown(r) ==
  IF r.ok THEN result' = <<r.val>> /\ error' = error
          ELSE error' = r.err /\ result' = result

GetCalculationResult ==
  /\ status = "ready"
  /\ loop.pc = "idle"
  /\ ReturnedOrThrown(getCalculationResult(expenses, userNames, userBalances, debtGraph))
  /\ UNCHANGED <<expenses, status, userNames, userBalances, debtGraph, call, loop, api, ui, settlement>>

Next ==
  \/ AddExpense
  \/ Construct
  \/ GetCalculationResult

Spec == Init /\ [][Next]_vars

(***************************************************************************)
(* The trips of the test suite, with the loop of optimizeSettlements taken *)
(* one iteration at a time.                                                *)
(***************************************************************************)
\* the test adds an expense to the list it will pass, each expense of the
\* suite at most once
AddTestExpense ==
  /\ status = "input"
  /\ Len(expenses) < MaxTrip
  /\ \E e \in TestExpenses :
       /\ \A i \in 1..Len(expenses) : expenses[i] # e
       /\ expenses' = Append(expenses, e)
  /\ UNCHANGED <<status, userNames, userBalances, debtGraph, error, result, call, loop, api, ui, settlement>>

\* the creditors and debtors of the call before, kept as they were left
LoopKept(net, returned) ==
  [loop EXCEPT !.pc = "while", !.settlements = <<>>, !.iterations = 0]

\* optimizeSettlements up to its while loop: new lists of creditors and
\* debtors, sorted, both indexes at the start, no settlement yet
LoopStart(net, returned) ==
  [pc |-> "while",
   creditors |-> SortDesc(Creditors(net), "amount"),
   debtors |-> SortDesc(Debtors(net), "amount"),
   creditorIndex |-> 1, debtorIndex |-> 1, settlements |-> <<>>,
   iterations |-> 0, returned |-> returned]

\* creditorIndex < creditors.length && debtorIndex < debtors.length
Matching(l) ==
  l.creditorIndex <= Len(l.creditors) /\ l.debtorIndex <= Len(l.debtors)

\* if (CurrencyUtils.isZero(remaining)) index++, remaining being the amount
\* left after the settlement
StaleAdvance(index, before, remaining) == IF isZero(before) THEN index + 1 ELSE index

Advance(index, before, remaining) == IF isZero(remaining) THEN index + 1 ELSE index

\* the body of the while loop, settleAmount being the smaller amount
LoopBody(l, creditAmount, debtAmount, settleAmount) ==
  [l EXCEPT
     !.settlements = IF AboveTolerance(settleAmount)
                       THEN Append(@, [from   |-> l.debtors[l.debtorIndex].person,
                                       to     |-> l.creditors[l.creditorIndex].person,
                                       amount |-> settleAmount])
                       ELSE @,
     !.creditors[l.creditorIndex].amount = subtract(creditAmount, settleAmount),
     !.debtors[l.debtorIndex].amount = subtract(debtAmount, settleAmount),
     !.creditorIndex = Advance(@, creditAmount, subtract(creditAmount, settleAmount)),
     !.debtorIndex = Advance(@, debtAmount, subtract(debtAmount, settleAmount)),
     !.iterations = @ + 1]

\* the larger amount taken for the smaller
Larger(a, b) == IF a <= b THEN b ELSE a

Min(a, b) == IF a <= b THEN a ELSE b

\* calculator.getOptimizedSettlements(), up to the while loop
GetOptimizedSettlements ==
  /\ status = "ready"
  /\ loop.pc = "idle"
  /\ Len(loop.returned) < MaxCalls
  /\ loop' = LoopStart(computeNetBalances(userNames, debtGraph), loop.returned)
  /\ UNCHANGED <<expenses, status, userNames, userBalances, debtGraph, error, result, call, api, ui, settlement>>

\* one iteration of the while loop
Iterate ==
  /\ loop.pc = "while"
  /\ Matching(loop)
  /\ loop' = LoopBody(loop, loop.creditors[loop.creditorIndex].amount,
                      loop.debtors[loop.debtorIndex].amount,
                      Min(loop.creditors[loop.creditorIndex].amount,
                          loop.debtors[loop.debtorIndex].amount))
  /\ UNCHANGED <<expenses, status, userNames, userBalances, debtGraph, error, result, call, api, ui, settlement>>

\* the loop is over: return settlements.sort(...)
ReturnSettlements ==
  /\ loop.pc = "while"
  /\ ~Matching(loop)
  /\ loop' = [loop EXCEPT !.pc = "idle",
                          !.returned = Append(@, SortDesc(loop.settlements, "amount"))]
  /\ UNCHANGED <<expenses, status, userNames, userBalances, debtGraph, error, result, call, api, ui, settlement>>

NextTrip ==
  \/ AddTestExpense
  \/ Construct
  \/ GetCalculationResult
  \/ GetOptimizedSettlements
  \/ Iterate
  \/ ReturnSettlements

\* a call that has started runs on: nothing else runs in between
SpecTrip ==
  Init /\ [][NextTrip]_vars /\ WF_vars(Iterate) /\ WF_vars(ReturnSettlements)

(***************************************************************************)
(* The distribution functions called on their own.                         *)
(***************************************************************************)
InitCurrency ==
  /\ expenses = <<>>
  /\ status = "input"
  /\ userNames = <<>>
  /\ userBalances = <<>>
  /\ debtGraph = <<>>
  /\ error = "none"
  /\ result = <<>>
  /\ call \in CurrencyCalls
  /\ loop = NoLoop
  /\ api = NoApi
  /\ ui = NoUi
  /\ settlement = NoSettlement

Engine == <<expenses, status, userNames, userBalances, debtGraph, error, result, loop>>

\* CurrencyUtils.distribute(total, values.length)
Distribute ==
  /\ call.fn = "distribute" /\ call.out = <<>>
  /\ call' = [call EXCEPT !.out = <<distribute(call.total, Len(call.values))>>]
  /\ UNCHANGED <<Engine, api, ui, settlement>>

\* CurrencyUtils.distributeByPercentages(total, values)
DistributeByPercentages ==
  /\ call.fn = "distributeByPercentages" /\ call.out = <<>>
  /\ call' = [call EXCEPT !.out = <<distributeByPercentages(call.total, call.values)>>]
  /\ UNCHANGED <<Engine, api, ui, settlement>>

\* CurrencyUtils.distributeByShares(total, values)
DistributeByShares ==
  /\ call.fn = "distributeByShares" /\ call.out = <<>>
  /\ call' = [call EXCEPT !.out = <<distributeByShares(call.total, call.values)>>]
  /\ UNCHANGED <<Engine, api, ui, settlement>>

NextCurrency ==
  \/ Distribute
  \/ DistributeByPercentages
  \/ DistributeByShares

SpecCurrency == InitCurrency /\ [][NextCurrency]_vars

(***************************************************************************)
(* The balance endpoint.                                                   *)
(***************************************************************************)
\* The handlers run on one event loop and give it up at every await, so a
\* request is served between two steps of another.  A request that changes
\* the collection does so in one operation of the database; what it awaits
\* before (Trip.findById) reads nothing that is held here: the trip is
\* there throughout, and the requests that remove trips are left out.

\* POST /api/expenses (createExpense): expense.save() stores an expense
\* that passed the validation; its date, given or new Date(), decides its
\* place among the documents by date
StoreExpense ==
  /\ api.writes < MaxWrites
  /\ Len(api.expenses) < MaxStored
  /\ \E e \in StoredExpenses, k \in 1..(Len(api.expenses) + 1) :
       api' = [api EXCEPT !.expenses = InsertAt(@, k, e), !.writes = @ + 1]
  /\ UNCHANGED <<Engine, call, ui, settlement>>

\* PUT /api/expenses/[id] (updateExpense): Expense.findByIdAndUpdate gives
\* the stored expense the amount, paidBy, sharedBy and date of the body
\* that passed the validation
UpdateExpense ==
  /\ api.writes < MaxWrites
  /\ \E j \in 1..Len(api.expenses), e \in StoredExpenses, k \in 1..Len(api.expenses) :
       api' = [api EXCEPT !.expenses = InsertAt(RemoveAt(@, j), k, e), !.writes = @ + 1]
  /\ UNCHANGED <<Engine, call, ui, settlement>>

\* Expense.deleteMany of clearDatabase, of seedDatabase({clearExisting:
\* true}) and of the test runner: every stored expense is removed in one
\* operation
ClearExpenses ==
  /\ api.writes < MaxWrites
  /\ api' = [api EXCEPT !.expenses = <<>>, !.writes = @ + 1]
  /\ UNCHANGED <<Engine, call, ui, settlement>>

\* DELETE /api/expenses/[id] (deleteExpense): Expense.findByIdAndDelete
DeleteExpense ==
  /\ api.writes < MaxWrites
  /\ \E j \in 1..Len(api.expenses) :
       api' = [api EXCEPT !.expenses = RemoveAt(@, j), !.writes = @ + 1]
  /\ UNCHANGED <<Engine, call, ui, settlement>>

\* GET /api/balances/[tripId] arrives: the handler runs up to
\* await connectToDatabase()
GetBalances ==
  /\ api.pc = "idle"
  /\ api' = [api EXCEPT !.pc = "connect"]
  /\ UNCHANGED <<Engine, call, ui, settlement>>

\* the connection is there: the handler runs up to await Trip.findById
Connected ==
  /\ api.pc = "connect"
  /\ api' = [api EXCEPT !.pc = "trip"]
  /\ UNCHANGED <<Engine, call, ui, settlement>>

\* the trip is found: the handler runs up to
\* await Expense.find({tripId}).sort({date: -1})
TripFound ==
  /\ api.pc = "trip"
  /\ api' = [api EXCEPT !.pc = "find"]
  /\ UNCHANGED <<Engine, call, ui, settlement>>

\* the database runs the query on the collection as it is
ExpensesFound ==
  /\ api.pc = "find"
  /\ api' = [api EXCEPT !.pc = "found", !.found = api.expenses]
  /\ UNCHANGED <<Engine, call, ui, settlement>>

\* the handler goes on with the documents found and answers
Respond ==
  /\ api.pc = "found"
  /\ api' = [api EXCEPT !.pc = "done", !.response = <<handler(api.found)>>]
  /\ UNCHANGED <<Engine, call, ui, settlement>>

NextApi ==
  \/ StoreExpense
  \/ UpdateExpense
  \/ DeleteExpense
  \/ ClearExpenses
  \/ GetBalances
  \/ Connected
  \/ TripFound
  \/ ExpensesFound
  \/ Respond

SpecApi == Init /\ [][NextApi]_vars

(***************************************************************************)
(* The pages.                                                              *)
(***************************************************************************)
\* an expense of the trip reaches the page
ShowExpense ==
  /\ ui.pc = "input"
  /\ Len(ui.expenses) < MaxShown
  /\ \E e \in ShownExpenses :
       /\ \A k \in 1..Len(ui.expenses) : ui.expenses[k] # e
       /\ ui' = [ui EXCEPT !.expenses = Append(@, e)]
  /\ UNCHANGED <<Engine, call, api, settlement>>

\* optimizeSettlements(calculateParticipantBalances(trip, expenses)), up to
\* the while loop
OptimizeShown ==
  /\ ui.pc = "input"
  /\ ui' = UiStart(ui, calculateParticipantBalances(People, ui.expenses))
  /\ UNCHANGED <<Engine, call, api, settlement>>

\* one iteration of the while loop
UiIterate ==
  /\ ui.pc = "while"
  /\ UiMatching(ui)
  /\ ui' = UiAdvance(UiSettle(ui, settlementAmount(ui)))
  /\ UNCHANGED <<Engine, call, api, settlement>>

\* return settlements
UiReturn ==
  /\ ui.pc = "while"
  /\ ~UiMatching(ui)
  /\ ui' = [ui EXCEPT !.pc = "done"]
  /\ UNCHANGED <<Engine, call, api, settlement>>

NextUi ==
  \/ ShowExpense
  \/ OptimizeShown
  \/ UiIterate
  \/ UiReturn

\* the loop, once started, runs on
SpecUi == Init /\ [][NextUi]_vars /\ WF_vars(UiIterate) /\ WF_vars(UiReturn)

(***************************************************************************)
(* A settlement document.                                                  *)
(***************************************************************************)
\* A request is served between two steps of another: a handler gives up
\* the event loop at every await, and so does a method at its save().  One
\* operation on the document is followed at a time: who calls a method
\* awaits the promise it returns.

\* POST /api/settlements (createSettlement) arrives: the handler checks the
\* body and runs up to await Settlement.findOne
CreateSettlement ==
  /\ settlement.pc = "idle"
  /\ \E body \in SettlementBodies :
       settlement' =
         IF BodyRefused(body)
           THEN [settlement EXCEPT !.last = "refused"]
           ELSE [settlement EXCEPT !.pc = "check", !.body = <<body>>]
  /\ UNCHANGED <<Engine, call, api, ui>>

\* findOne has answered: 409 if the settlement exists, else the document
\* is constructed and the handler runs up to await settlement.save()
ExistingChecked ==
  /\ settlement.pc = "check"
  /\ settlement' =
       IF settlement.saved # <<>> /\ SameKey(settlement.saved[1], settlement.body[1])
         THEN Ended(settlement, "conflict")
         ELSE [settlement EXCEPT !.doc = <<NewSettlement(settlement.body[1])>>,
                                 !.pc = "save", !.body = <<>>]
  /\ UNCHANGED <<Engine, call, api, ui>>

\* another POST with the same body, which has passed its findOne as well,
\* saves its document first
SavedByAnother ==
  /\ settlement.pc = "save"
  /\ settlement.doc[1].isNew
  /\ settlement.saved = <<>>
  /\ Validates(settlement.doc[1]) /\ preSave(settlement.doc[1]).ok
  /\ settlement' = [settlement EXCEPT !.saved = <<Fields(preSave(settlement.doc[1]).val)>>,
                                      !.direct = 0]
  /\ UNCHANGED <<Engine, call, api, ui>>

\* the save that an operation awaits is carried out
SaveSettled ==
  /\ settlement.pc = "save"
  /\ settlement' = save(settlement)
  /\ UNCHANGED <<Engine, call, api, ui>>

\* Settlement.findById(id) gives the document of the record
FindSettlement ==
  /\ settlement.pc = "idle"
  /\ settlement.saved # <<>>
  /\ settlement' = [settlement EXCEPT !.doc = <<Loaded(settlement.saved[1])>>]
  /\ UNCHANGED <<Engine, call, api, ui>>

\* settlement.markAsPaid()
MarkAsPaid ==
  /\ settlement.pc = "idle"
  /\ settlement.doc # <<>>
  /\ settlement' = markAsPaid(settlement)
  /\ UNCHANGED <<Engine, call, api, ui>>

\* settlement.markAsPartiallyPaid(amount)
PartiallyPaidWith(amount) ==
  /\ settlement.pc = "idle"
  /\ settlement.doc # <<>>
  /\ settlement' = markAsPartiallyPaid(settlement, amount)
  /\ UNCHANGED <<Engine, call, api, ui>>

MarkAsPartiallyPaid == \E amount \in PaidAmounts : PartiallyPaidWith(amount)

\* settlement.markAsPending()
MarkAsPending ==
  /\ settlement.pc = "idle"
  /\ settlement.doc # <<>>
  /\ settlement' = markAsPending(settlement)
  /\ UNCHANGED <<Engine, call, api, ui>>

\* PATCH /api/settlements/[id] (updateSettlementStatus)
PatchSettlement ==
  /\ settlement.direct < MaxDirect
  /\ \E st \in Statuses, pa \in BodyPaidAmounts :
       settlement' = updateSettlementStatus(settlement, st, pa)
  /\ UNCHANGED <<Engine, call, api, ui>>

\* PUT /api/settlements/[id] (updateSettlement)
PutSettlement ==
  /\ settlement.direct < MaxDirect
  /\ \/ \E st \in Statuses, pa \in BodyPaidAmounts :
          settlement' = updateSettlementStatus(settlement, st, pa)
     \/ \E update \in SettlementUpdates :
          settlement' = updateSettlement(settlement, update)
  /\ UNCHANGED <<Engine, call, api, ui>>

\* DELETE /api/settlements/[id] (deleteSettlement): findByIdAndDelete
DeleteSettlement ==
  /\ settlement.saved # <<>>
  /\ settlement' =
       [settlement EXCEPT
          !.saved = <<>>, !.direct = 0,
          !.doc = IF @ # <<>> /\ ~@[1].isNew
                    THEN <<[@[1] EXCEPT !.deleted = TRUE]>> ELSE @]
  /\ UNCHANGED <<Engine, call, api, ui>>

NextSettlement ==
  \/ CreateSettlement
  \/ ExistingChecked
  \/ SavedByAnother
  \/ SaveSettled
  \/ FindSettlement
  \/ MarkAsPaid
  \/ MarkAsPartiallyPaid
  \/ MarkAsPending
  \/ PatchSettlement
  \/ PutSettlement
  \/ DeleteSettlement

SpecSettlement == Init /\ [][NextSettlement]_vars

(***************************************************************************)
(* The properties.                                                         *)
(***************************************************************************)
\* an expense no validation would turn away: a non-negative amount, somebody
\* to share it, percentages that add up to 100, custom amounts that add up
\* to the amount, positive weights
WellFormed(e) ==
  /\ e.amount >= 0
  /\ e.participants # <<>>
  /\ e.splitType = "PERCENTAGE" => SumSeq(Values(e)) = 10000
  /\ e.splitType = "CUSTOM" => SumSeq(Values(e)) = e.amount
  /\ e.splitType = "SHARES" => \A i \in 1..Len(Values(e)) : Values(e)[i] > 0

AllWellFormed == \A i \in 1..Len(expenses) : WellFormed(expenses[i])

Balances(ub) == [i \in 1..Len(ub) |-> ub[i].balance]

\* C1: conservation: for a list of valid expenses, the balances of the
\* result sum to zero within the tolerance (isZero of the sum)
C1_BalancesSumToZero ==
  (result # <<>> /\ AllWellFormed)
    => isEqualSum(Balances(result[1].userBalances), 0)

\* what a person pays and is paid in a settlement plan
PaidIn(plan, person) ==
  SumSeq(Amounts(SelectSeq(plan, LAMBDA t : t.from = person)))

ReceivedIn(plan, person) ==
  SumSeq(Amounts(SelectSeq(plan, LAMBDA t : t.to = person)))

\* the net balances once every transfer of the plan has been made
AfterSettling(net, plan) ==
  [i \in 1..Len(net) |->
     net[i].balance + PaidIn(plan, net[i].person) - ReceivedIn(plan, net[i].person)]

\* C2: settlement correctness: applying every settlement of the result to
\* the net balances leaves every participant within 0.01 of zero.  Stated
\* for valid expenses whose balances sum to zero, with a remainder of 0.01
\* itself allowed
C2_SettlementsClearEveryone ==
  (result # <<>> /\ AllWellFormed
     /\ SumSeq(Balances(result[1].userBalances)) = 0)
    => LET left == AfterSettling(computeNetBalances(userNames, debtGraph),
                                 result[1].settlements)
       IN  \A i \in 1..Len(left) : Abs(left[i]) <= 1

\* a call of a distribution function that has returned (not thrown)
Returned(fn) == call.fn = fn /\ call.out # <<>> /\ call.out[1].ok

\* C3: percentage exactness: for a non-negative total and percentages that
\* sum to 100, the amounts of distributeByPercentages sum exactly to the total
C3_PercentagesSumToTotal ==
  (call.fn = "distributeByPercentages" /\ call.out # <<>>
     /\ call.total >= 0 /\ SumSeq(call.values) = 10000)
    => call.out[1].ok /\ SumSeq(call.out[1].val) = call.total

\* C4: share-weighted exactness: for a non-negative total and positive
\* weights, the amounts of distributeByShares sum exactly to the total
\* (100.00 split by the weights 1, 1, 1 sums to 100.00)
C4_SharesSumToTotal ==
  (call.fn = "distributeByShares" /\ call.out # <<>>
     /\ call.total >= 0 /\ call.values # <<>>
     /\ \A i \in 1..Len(call.values) : call.values[i] > 0)
    => call.out[1].ok /\ SumSeq(call.out[1].val) = call.total

\* C5: distribute(total, n), for a non-negative total and a positive n,
\* returns exactly n amounts, none negative, that sum exactly to the total
\* and differ from one another by at most one cent
C5_DistributeExact ==
  (call.fn = "distribute" /\ call.out # <<>>
     /\ call.total >= 0 /\ Len(call.values) > 0)
    => /\ call.out[1].ok
       /\ LET parts == call.out[1].val
          IN  /\ Len(parts) = Len(call.values)
              /\ \A i \in 1..Len(parts) : parts[i] >= 0
              /\ SumSeq(parts) = call.total
              /\ \A i, j \in 1..Len(parts) : Abs(parts[i] - parts[j]) <= 1

\* C5 happens: a total that does not divide evenly has been distributed
\* among three
C5_Witness ==
  /\ Returned("distribute")
  /\ Len(call.values) = 3
  /\ call.total = TestTotal
  /\ call.out[1].val = <<3334, 3333, 3333>>

\* C6: per-expense share sum: whenever the calculator accepts a list, the
\* shares computed for each expense of a non-negative amount sum exactly to
\* its amount, those of a CUSTOM expense included
C6_SharesSumToAmount ==
  status = "ready"
    => \A i \in 1..Len(expenses) :
         expenses[i].amount >= 0
           => LET shares == calculateShares(expenses[i])
              IN  shares.ok /\ SumSeq(Amounts(shares.val)) = expenses[i].amount

\* C7: empty input: constructing the calculator on an empty list and
\* asking for the result returns one and throws nothing, with every balance
\* zero, no settlements and isBalanced true
C7_EmptyInputReturnsResult ==
  (status = "ready" /\ expenses = <<>> /\ (result # <<>> \/ error # "none"))
    => /\ error = "none"
       /\ result # <<>>
       /\ \A i \in 1..Len(result[1].userBalances) :
            result[1].userBalances[i].balance = 0
       /\ result[1].settlements = <<>>
       /\ result[1].summary.isBalanced

\* C8: for valid expenses, isBalanced is true exactly when every balance
\* is within the tolerance of zero, and exactly when there is nothing to
\* settle
C8_BalancedIffNothingToSettle ==
  (result # <<>> /\ AllWellFormed)
    => LET r == result[1]
       IN  /\ r.summary.isBalanced
               <=> \A i \in 1..Len(r.userBalances) : isZero(r.userBalances[i].balance)
           /\ r.summary.isBalanced <=> r.settlements = <<>>

\* PERCENTAGE values that do not sum to 100 within 0.01
PercentagesOff(e) == e.splitType = "PERCENTAGE" /\ Abs(SumSeq(Values(e)) - 10000) > 1

\* CUSTOM values that do not sum to the amount within the tolerance: the
\* sum and the amount are not less than 0.01 apart
CustomOff(e) == e.splitType = "CUSTOM" /\ Abs(SumSeq(Values(e)) - e.amount) >= 1

NobodyToShare(e) == e.splitType = "EQUAL" /\ e.participants = <<>>

Aborted ==
  /\ status = "failed"
  /\ error # "none"
  /\ userBalances = <<>>
  /\ debtGraph = <<>>
  /\ result = <<>>

\* C9, as stated: a list holding, at any position, a PERCENTAGE expense
\* not summing to 100, a CUSTOM expense not summing to its amount, an EQUAL
\* expense with no participants or an expense with a negative amount makes
\* the whole calculation fail, and nothing is returned
C9_AnyMalformedAborts ==
  (status # "input"
     /\ \E i \in 1..Len(expenses) :
          \/ PercentagesOff(expenses[i])
          \/ CustomOff(expenses[i])
          \/ NobodyToShare(expenses[i])
          \/ expenses[i].amount < 0)
    => Aborted

\* C10: a SHARES expense of a positive amount whose weights sum to zero or
\* less is rejected
C10_NonPositiveWeightsRejected ==
  (status # "input"
     /\ \E i \in 1..Len(expenses) :
          /\ expenses[i].splitType = "SHARES"
          /\ expenses[i].amount > 0
          /\ SumSeq(Values(expenses[i])) <= 0)
    => status = "failed"

\* C11: a failure identifies the offending expense: a list that fails on
\* another expense produces a different failure value.
C11_FailureIdentifiesExpense ==
  (status = "failed" /\ Len(expenses) = 1) =>
    \A other \in ExpenseInputs :
      (other # expenses[1] /\ ~calculateBalances(<<other>>, <<>>).ok)
        => calculateBalances(<<other>>, <<>>).err # error

\* the creditors and the debtors that optimizeSettlements finds on the
\* calculator's debt graph
CreditorCount == Len(Creditors(computeNetBalances(userNames, debtGraph)))
DebtorCount == Len(Debtors(computeNetBalances(userNames, debtGraph)))

\* C12 as stated: the plan never has more settlements than
\* creditors + debtors - 1, whatever the trip
C12_BoundOnEveryTrip ==
  result # <<>> => Len(result[1].settlements) <= CreditorCount + DebtorCount - 1

\* C12: when somebody is a creditor or a debtor, the plan has at most
\* creditors + debtors - 1 settlements; when nobody is, it has none
C12_SettlementBound ==
  result # <<>> =>
    IF CreditorCount + DebtorCount = 0
      THEN result[1].settlements = <<>>
      ELSE Len(result[1].settlements) <= CreditorCount + DebtorCount - 1

\* one creditor and three debtors, settled in exactly three payments
C12_Witness ==
  /\ result # <<>>
  /\ CreditorCount = 1 /\ DebtorCount = 3
  /\ Len(result[1].settlements) = 3

\* C13: every iteration of the matching loop advances the creditor index
\* or the debtor index, the loop never makes more iterations than there are
\* creditors and debtors, and a loop that has started comes to its end
C13_LoopTerminates ==
  /\ [][Iterate => \/ loop'.creditorIndex > loop.creditorIndex
                   \/ loop'.debtorIndex > loop.debtorIndex]_vars
  /\ [](loop.iterations <= Len(loop.creditors) + Len(loop.debtors))
  /\ (loop.pc = "while" ~> loop.pc = "idle")

\* a loop over one creditor and three debtors that has ended after three
\* iterations
C13_Witness ==
  /\ loop.pc = "idle" /\ Len(loop.returned) = 1
  /\ Len(loop.creditors) = 1 /\ Len(loop.debtors) = 3
  /\ loop.iterations = 3

\* C14: a call of getCalculationResult or getOptimizedSettlements leaves
\* the balance map and the debt graph as they were, every call of
\* getOptimizedSettlements returns the plan the first call returned, which
\* is the plan of getCalculationResult, and getCalculationResult called
\* again returns what it returned before
C14_Idempotent ==
  /\ [][status = "ready" => /\ userBalances' = userBalances
                            /\ debtGraph' = debtGraph
                            /\ result # <<>> => result' = result]_vars
  /\ [](\A i \in 1..Len(loop.returned) :
          /\ loop.returned[i] = loop.returned[1]
          /\ result # <<>> => loop.returned[i] = result[1].settlements)
  /\ [](result # <<>> =>
          result[1] = getCalculationResult(expenses, userNames, userBalances, debtGraph).val)

\* two calls of getOptimizedSettlements and one of getCalculationResult on
\* a calculator with a payment to make
C14_Witness ==
  /\ Len(loop.returned) = 2
  /\ loop.returned[1] # <<>>
  /\ result # <<>>

\* the expense list in every order
Permuted(exps) ==
  { [i \in 1..Len(exps) |-> exps[p[i]]] :
      p \in { f \in [1..Len(exps) -> 1..Len(exps)] :
                \A i, j \in 1..Len(exps) : f[i] = f[j] => i = j } }

\* both calculations have the same participants, each with the same
\* totalPaid, totalShare and balance
SameBalances(ub, other) ==
  /\ Len(other) = Len(ub)
  /\ \A i \in 1..Len(ub) :
       \E j \in 1..Len(other) :
         /\ other[j].userId = ub[i].userId
         /\ other[j].totalPaid = ub[i].totalPaid
         /\ other[j].totalShare = ub[i].totalShare
         /\ other[j].balance = ub[i].balance

SameAs(ub, done) == done.ok /\ SameBalances(ub, done.val.userBalances)

\* C15: the expenses of an accepted list, taken in any other order, give
\* every participant the same totalPaid, totalShare and balance
C15_OrderIndependent ==
  (status = "ready" /\ result = <<>> /\ loop = NoLoop) =>
    \A q \in Permuted(expenses) :
      SameAs(userBalances, calculateBalances(q, initializeUserNames(<<>>, q)))

\* a list of three different expenses, two of them paid by the same
\* participant
C15_Witness ==
  /\ status = "ready" /\ result = <<>> /\ loop = NoLoop
  /\ Len(expenses) = 3
  /\ expenses[1] # expenses[2] /\ expenses[2] # expenses[3] /\ expenses[1] # expenses[3]
  /\ expenses[1].paidBy = expenses[3].paidBy
  /\ expenses[1].amount # expenses[3].amount

\* the EQUAL expense of the total among the first n of the group, paid by
\* the first
EqualAmong(total, n) == createTestExpense(total, Group[1], SubSeq(Group, 1, n))

\* the first k parts are the base amount and a cent, the others the base
\* amount
FirstAbsorb(parts, base, k) ==
  \A i \in 1..Len(parts) : parts[i] = IF i <= k THEN base + 1 ELSE base

\* C16: distribute gives the leftover cents, one each, to the first-listed
\* parts, so that no part is larger than one before it; distribute(100, 3)
\* is [33.34, 33.33, 33.33]; and the shares of an EQUAL expense are these
\* parts in the order of its participants, the first-listed owing the
\* extra cent
C16_FirstListedAbsorb ==
  Returned("distribute") =>
    /\ FirstAbsorb(call.out[1].val, call.total \div Len(call.values),
                   call.total % Len(call.values))
    /\ \A i, j \in 1..Len(call.values) : i <= j => call.out[1].val[i] >= call.out[1].val[j]
    /\ (call.total = TestTotal /\ Len(call.values) = 3)
         => call.out[1].val = <<3334, 3333, 3333>>
    /\ Len(call.values) <= Len(Group) =>
         /\ calculateEqualShares(EqualAmong(call.total, Len(call.values))).ok
         /\ \A i \in 1..Len(call.values) :
              /\ calculateEqualShares(EqualAmong(call.total, Len(call.values))).val[i].userId
                   = Group[i]
              /\ calculateEqualShares(EqualAmong(call.total, Len(call.values))).val[i].amount
                   = call.out[1].val[i]

\* two cents left over among three: the first two parts carry them
C16_Witness ==
  /\ Returned("distribute")
  /\ Len(call.values) = 3
  /\ call.total % 3 = 2
  /\ call.out[1].val[1] = call.out[1].val[3] + 1
  /\ call.out[1].val[2] = call.out[1].val[3] + 1

\* the balance record of a participant
BalanceOf(ub, userId) == ub[IndexOfKey(ub, "userId", userId)]

\* the calculator has been built on this one expense
BuiltOn(e) == status = "ready" /\ expenses = <<e>>

\* 100.00 paid by alice for alice, bob and charlie
UnevenExpense == createTestExpense(TestTotal, "alice", <<"alice", "bob", "charlie">>)

\* 0.03 paid by alice for alice and bob
SmallExpense == createTestExpense(SmallAmount, "alice", <<"alice", "bob">>)

\* C17 as the tests assert it: the last-listed participant owes the extra
\* cent: distribute(100, 3) is [33.33, 33.33, 33.34], the payer of 100.00
\* split three ways ends at 66.67, and of 0.03 the payer owes 0.01 (balance
\* 0.02) and the other 0.02 (balance -0.02)
C17_LastListedOwesExtraCent ==
  /\ BuiltOn(UnevenExpense) =>
       /\ distribute(expenses[1].amount, 3) = Ok(<<3333, 3333, 3334>>)
       /\ BalanceOf(userBalances, "alice").balance = 6667
  /\ BuiltOn(SmallExpense) =>
       /\ BalanceOf(userBalances, "alice").totalShare = 1
       /\ BalanceOf(userBalances, "alice").balance = 2
       /\ BalanceOf(userBalances, "bob").totalShare = 2
       /\ BalanceOf(userBalances, "bob").balance = -2

\* C18: roster completeness: every participant of the trip appears exactly
\* once in the balances of the result, one who neither paid nor shared an
\* expense with totalPaid, totalShare and balance all zero
C18_RosterComplete ==
  result # <<>> =>
    \A u \in Users :
      /\ Cardinality({i \in 1..Len(result[1].userBalances) :
                        result[1].userBalances[i].userId = u}) = 1
      /\ (\A k \in 1..Len(expenses) :
            /\ expenses[k].paidBy # u
            /\ \A p \in 1..Len(expenses[k].participants) :
                 expenses[k].participants[p].userId # u)
           => /\ BalanceOf(result[1].userBalances, u).totalPaid = 0
              /\ BalanceOf(result[1].userBalances, u).totalShare = 0
              /\ BalanceOf(result[1].userBalances, u).balance = 0

\* the positive net balances
PositiveNets(net) ==
  SelectSeq([i \in 1..Len(net) |-> net[i].balance], LAMBDA b : b > 0)

\* C19: the settlement amounts sum to the sum of the positive net balances,
\* and with a single creditor every settlement is paid to that creditor and
\* the amounts sum to the creditor's balance
C19_SettlementsSumToNet ==
  (result # <<>> /\ AllWellFormed)
    => /\ SumSeq(Amounts(result[1].settlements))
            = SumSeq(PositiveNets(computeNetBalances(userNames, debtGraph)))
       /\ CreditorCount = 1 =>
            /\ \A i \in 1..Len(result[1].settlements) :
                 result[1].settlements[i].to
                   = Creditors(computeNetBalances(userNames, debtGraph))[1].person
            /\ SumSeq(Amounts(result[1].settlements))
                 = Creditors(computeNetBalances(userNames, debtGraph))[1].amount

\* the chain of the test: alice pays 100.00 for alice and bob, bob for bob
\* and charlie, charlie for charlie and dave
ChainExpenses ==
  << createTestExpense(TestTotal, "alice", <<"alice", "bob">>),
     createTestExpense(TestTotal, "bob", <<"bob", "charlie">>),
     createTestExpense(TestTotal, "charlie", <<"charlie", "dave">>) >>

\* C20 as the test asserts it: the plan of the chain has fewer than 3
\* settlements and its amounts sum to 100.00
C20_ChainAsTested ==
  (result # <<>> /\ expenses = ChainExpenses) =>
    /\ Len(result[1].settlements) < 3
    /\ SumSeq(Amounts(result[1].settlements)) = TestTotal

\* the trip of the test: alice pays 30.00 and bob pays 30.00, each for
\* alice, bob and charlie
SimpleExpenses ==
  << createTestExpense(SharedAmount, "alice", <<"alice", "bob", "charlie">>),
     createTestExpense(SharedAmount, "bob", <<"alice", "bob", "charlie">>) >>

\* C21 as the test asserts it: the plan is exactly one settlement, paid by
\* charlie, of 20.00
C21_OneSettlementOfTwenty ==
  (result # <<>> /\ expenses = SimpleExpenses) =>
    /\ Len(result[1].settlements) = 1
    /\ result[1].settlements[1].from = "charlie"
    /\ result[1].settlements[1].amount = 2000

\* the balances of the endpoint as whole cents
BalanceCents(balances) == [i \in 1..Len(balances) |-> round(balances[i].balance)]

\* C22: the balances that calculateBasicBalances of the endpoint reports for
\* the stored expenses, all equally shared, sum to zero within 0.01 (a sum
\* of 0.01 itself allowed)
C22_ApiBalancesSumToZero ==
  api.response # <<>>
    => Abs(SumSeq(BalanceCents(calculateBasicBalances(api.found)))) <= 1

\* C24: computing the settlements leaves the balances alone: every entry of
\* userBalances in the response has the balance
\* round(totalPaid - totalShare)
C24_SettlingKeepsBalances ==
  api.response # <<>>
    => \A i \in 1..Len(api.response[1].userBalances) :
         api.response[1].userBalances[i].balance
           = Num(ApiNet(api.response[1].userBalances[i]))

\* the stored expenses as the calculator takes them
Converted(exps) == [i \in 1..Len(exps) |-> convertFromLegacyExpense(exps[i])]

\* the entry of the endpoint and the entry of the calculator say the same
SameEntry(a, c) ==
  /\ a.balance = Num(c.balance)
  /\ a.totalPaid = Num(c.totalPaid)
  /\ a.totalShare = Num(c.totalShare)

AgreesWith(a, done) ==
  /\ done.ok
  /\ \A i \in 1..Len(a) :
       /\ IndexOfKey(done.val.userBalances, "userId", a[i].userId) # 0
       /\ SameEntry(a[i], BalanceOf(done.val.userBalances, a[i].userId))

\* C26: for the stored expenses, all equally shared, calculateBasicBalances
\* of the endpoint reports for every participant the totalPaid, totalShare
\* and balance that BalanceCalculator computes for the same expenses
\* converted by convertFromLegacyExpense
C26_ApiAgreesWithCalculator ==
  api.response # <<>>
    => AgreesWith(calculateBasicBalances(api.found),
                  calculateBalances(Converted(api.found),
                                    initializeUserNames(<<>>, Converted(api.found))))

\* the loop is at a creditor and a debtor who both have 0.01 or more left
BothRemain(u) ==
  /\ u.pc = "while" /\ UiMatching(u)
  /\ ~DblLess(u.creditors[u.i].balance, Tolerance)
  /\ ~DblLess(DblAbs(u.debtors[u.j].balance), Tolerance)

\* C23: the loop of the pages never reaches a state where the current
\* creditor and the current debtor both have 0.01 or more left while the
\* amount to settle is not above 0.01, the state in which neither index
\* moves and the loop does not end
C23_LoopNeverStuck ==
  BothRemain(ui) => DblLess(Tolerance, settlementAmount(ui))

\* C28: for a saved settlement, in any status, the virtual remainingAmount
\* and getRemainingAmount() return the same value
C28_RemainingAmountsAgree ==
  settlement.saved # <<>>
    => remainingAmount(settlement.saved[1]) = getRemainingAmount(settlement.saved[1])

\* the saved record has the fields of its status
SavedConsistent(r) ==
  /\ r.status = "paid" => (r.paidAt # <<>> /\ r.paidAmount = <<>>)
  /\ r.status = "partially_paid" =>
       (/\ r.paidAmount # <<>> /\ r.paidAt = <<>>
        /\ 0 < r.paidAmount[1] /\ r.paidAmount[1] < r.amount)
  /\ r.status = "pending" => (r.paidAt = <<>> /\ r.paidAmount = <<>>)

\* a call markAsPartiallyPaid(x) with x <= 0 or x >= amount fails and
\* leaves the document and the record as they were
RefusedUnchanged ==
  \A x \in PaidAmounts :
    (PartiallyPaidWith(x) /\ (x <= 0 \/ x >= settlement.doc[1].amount))
      => /\ settlement'.last = "thrown"
         /\ settlement'.doc = settlement.doc
         /\ settlement'.saved = settlement.saved

\* C29: after any sequence of markAsPaid, markAsPartiallyPaid(x) and
\* markAsPending on a settlement that was created by a save and that no
\* request has changed directly, the saved record has the fields of its
\* status: paid with
\* paidAt set and paidAmount unset, partially_paid with
\* 0 < paidAmount < amount and paidAt unset, pending with both unset; and
\* markAsPartiallyPaid(x) with x <= 0 or x >= amount fails leaving status,
\* paidAmount and paidAt unchanged
C29_StatusFieldsConsistent ==
  /\ []((settlement.saved # <<>> /\ settlement.direct = 0)
         => SavedConsistent(settlement.saved[1]))
  /\ [][RefusedUnchanged]_vars

\* a record saved as partially paid, then a payment refused for reaching
\* the total
C29_Witness ==
  /\ settlement.saved # <<>>
  /\ settlement.direct = 0
  /\ settlement.saved[1].status = "partially_paid"
  /\ settlement.last = "thrown"

\* the net balance that the debt graph gives a participant
NetOf(net, person) == net[IndexOfKey(net, "person", person)].balance

\* CurrencyUtils.isEqual(a, b) on two whole-cent amounts
isEqual(a, b) == DblLess(DblAbs(DblSub(Num(a), Num(b))), Tolerance)

\* C25: for an accepted list of valid expenses, the net balance of every
\* participant obtained by folding the debt graph agrees within the
\* tolerance (CurrencyUtils.isEqual) with the balance totalPaid - totalShare
\* reported for that participant
C25_GraphAgreesWithBalances ==
  (status = "ready" /\ AllWellFormed)
    => \A i \in 1..Len(userBalances) :
         /\ IndexOfKey(computeNetBalances(userNames, debtGraph), "person",
                       userBalances[i].userId) # 0
         /\ isEqual(NetOf(computeNetBalances(userNames, debtGraph), userBalances[i].userId),
                    userBalances[i].balance)

\* the settlements of a plan are above the tolerance, go from a debtor to
\* a creditor of the net balances, and nobody both pays and receives
PlanWellFormed(plan, net) ==
  \A k \in 1..Len(plan) :
    /\ plan[k].amount > 1
    /\ NetOf(net, plan[k].from) < -1
    /\ NetOf(net, plan[k].to) > 1
    /\ plan[k].from # plan[k].to
    /\ \A other \in 1..Len(plan) : plan[k].from # plan[other].to

\* C27: every settlement of the optimized plan has an amount strictly
\* above 0.01, is paid by a participant whose net balance is below -0.01
\* to one whose net balance is above 0.01, never to the payer, and no
\* participant pays in one settlement and receives in another
C27_SettlementsWellFormed ==
  result # <<>>
    => PlanWellFormed(result[1].settlements, computeNetBalances(userNames, debtGraph))

\* a plan of two settlements
C27_Witness ==
  /\ result # <<>>
  /\ Len(result[1].settlements) >= 2

\* what a participant owes and is owed by the net balances
NetDebt(net, person) ==
  IF NetOf(net, person) < 0 THEN 0 - NetOf(net, person) ELSE 0

NetCredit(net, person) ==
  IF NetOf(net, person) > 0 THEN NetOf(net, person) ELSE 0

NoOverPayment(plan, net) ==
  \A i \in 1..Len(net) :
    /\ PaidIn(plan, net[i].person) <= NetDebt(net, net[i].person)
    /\ ReceivedIn(plan, net[i].person) <= NetCredit(net, net[i].person)

\* C30: in every plan that optimizeSettlements returns, no participant pays
\* more in all than the net debt, and none receives more in all than the
\* net credit
C30_NoOverPayment ==
  \A k \in 1..Len(loop.returned) :
    NoOverPayment(loop.returned[k], computeNetBalances(userNames, debtGraph))

\* a returned plan in which somebody pays two creditors, the whole debt and
\* no more
C30_Witness ==
  \E k \in 1..Len(loop.returned) : \E person \in {"alice", "bob", "charlie", "dave"} :
    /\ Len(SelectSeq(loop.returned[k], LAMBDA t : t.from = person)) >= 2
    /\ IndexOfKey(computeNetBalances(userNames, debtGraph), "person", person) # 0
    /\ PaidIn(loop.returned[k], person)
         = NetDebt(computeNetBalances(userNames, debtGraph), person)

====
